---- MODULE Spec2Model ----
(***************************************************************************)
(* Model of the MCPQL query-safety gate: the SQL classifier and impact     *)
(* estimator of securityUtils.ts, the flag checks of security.ts and the   *)
(* propose / confirm / execute handlers of tools/dataOperations.ts.        *)
(*                                                                         *)
(* SQL texts and procedure names are sequences of one-character strings,   *)
(* so that trim, toUpperCase, startsWith, split and the regular-expression *)
(* rewrites are computed character by character as the code computes them. *)
(***************************************************************************)
EXTENDS Integers, Sequences, FiniteSets, TLC

(***************************************************************************)
(* Characters and JavaScript string primitives                             *)
(***************************************************************************)
LowerChars == <<"a","b","c","d","e","f","g","h","i","j","k","l","m",
                "n","o","p","q","r","s","t","u","v","w","x","y","z">>
UpperChars == <<"A","B","C","D","E","F","G","H","I","J","K","L","M",
                "N","O","P","Q","R","S","T","U","V","W","X","Y","Z">>
DigitChars == <<"0","1","2","3","4","5","6","7","8","9">>

Range(s) == {s[i] : i \in 1..Len(s)}

\* \s of the regular expressions and the characters String.trim removes
IsSpace(c) == c \in {" ", "\n", "\t", "\r"}

\* \w of the regular expressions
IsWordChar(c) == c \in Range(LowerChars) \cup Range(UpperChars) \cup Range(DigitChars) \cup {"_"}

ToUpperChar(c) ==
    IF \E i \in 1..26 : LowerChars[i] = c
    THEN UpperChars[CHOOSE i \in 1..26 : LowerChars[i] = c]
    ELSE c

\* String.prototype.toUpperCase
ToUpperCase(s) == [i \in 1..Len(s) |-> ToUpperChar(s[i])]

ToLowerChar(c) ==
    IF \E i \in 1..26 : UpperChars[i] = c
    THEN LowerChars[CHOOSE i \in 1..26 : UpperChars[i] = c]
    ELSE c

\* String.prototype.toLowerCase
ToLowerCase(s) == [i \in 1..Len(s) |-> ToLowerChar(s[i])]

\* the rest of s from position i on (s.substring(i-1))
Drop(s, i) == IF i > Len(s) THEN <<>> ELSE SubSeq(s, i, Len(s))

\* number of leading characters of s that satisfy \s
RECURSIVE LeadingSpaces(_)
LeadingSpaces(s) ==
    IF s = <<>> \/ ~IsSpace(Head(s)) THEN 0 ELSE 1 + LeadingSpaces(Tail(s))

RECURSIVE TrailingSpaces(_)
TrailingSpaces(s) ==
    IF s = <<>> \/ ~IsSpace(s[Len(s)]) THEN 0
    ELSE 1 + TrailingSpaces(SubSeq(s, 1, Len(s) - 1))

\* String.prototype.trim
Trim(s) ==
    LET a == LeadingSpaces(s)
    IN  IF a = Len(s) THEN <<>>
        ELSE SubSeq(s, a + 1, Len(s) - TrailingSpaces(s))

\* String.prototype.startsWith
StartsWith(s, p) == Len(s) >= Len(p) /\ SubSeq(s, 1, Len(p)) = p

\* p occurs in s at position i
MatchAt(s, i, p) == i + Len(p) - 1 <= Len(s) /\ SubSeq(s, i, i + Len(p) - 1) = p

\* length of the longest run of non-space characters at the head of s
RECURSIVE LeadingNonSpaces(_)
LeadingNonSpaces(s) ==
    IF s = <<>> \/ IsSpace(Head(s)) THEN 0 ELSE 1 + LeadingNonSpaces(Tail(s))

\* s.split(/\s+/)[0]: the text before the first run of white space
\* (the empty string when s is empty or begins with white space)
FirstSplit(s) == SubSeq(s, 1, LeadingNonSpaces(s))

(***************************************************************************)
(* Keywords                                                                *)
(***************************************************************************)
kINSERT   == <<"I","N","S","E","R","T">>
kUPDATE   == <<"U","P","D","A","T","E">>
kDELETE   == <<"D","E","L","E","T","E">>
kALTER    == <<"A","L","T","E","R">>
kDROP     == <<"D","R","O","P">>
kTRUNCATE == <<"T","R","U","N","C","A","T","E">>
kCREATE   == <<"C","R","E","A","T","E">>
kMERGE    == <<"M","E","R","G","E">>
kBULK     == <<"B","U","L","K">>
kEXEC     == <<"E","X","E","C">>
kEXECUTE  == <<"E","X","E","C","U","T","E">>
kSELECT   == <<"S","E","L","E","C","T">>
kSHOW     == <<"S","H","O","W">>
kDESCRIBE == <<"D","E","S","C","R","I","B","E">>
kDESC     == <<"D","E","S","C">>
kEXPLAIN  == <<"E","X","P","L","A","I","N">>
kWITH     == <<"W","I","T","H">>
kUNKNOWN  == <<"U","N","K","N","O","W","N">>
kFROM     == <<"F","R","O","M">>
kSET      == <<"S","E","T">>
kWHERE    == <<"W","H","E","R","E">>

WRITE_OPERATIONS ==
    {kINSERT, kUPDATE, kDELETE, kALTER, kDROP, kTRUNCATE,
     kCREATE, kMERGE, kBULK, kEXEC, kEXECUTE}

READ_OPERATIONS == {kSELECT, kSHOW, kDESCRIBE, kDESC, kEXPLAIN, kWITH}

(***************************************************************************)
(* Operation Classifier                                                    *)
(***************************************************************************)
\* a test that takes the first white-space-delimited token for the keyword
LeadsWithToken(cleanSql, op) == FirstSplit(cleanSql) = op

\* the test that decides whether the text leads with keyword op
LeadsWith(cleanSql, op) == StartsWith(cleanSql, op)

\* the normalisation analyzeQuery applies before it looks at the keyword
CleanSql(sql) == ToUpperCase(Trim(sql))

analyzeQuery(sql) ==
    LET cleanSql == CleanSql(sql)
        firstKeyword == FirstSplit(cleanSql)
        isWriteOperation == \E op \in WRITE_OPERATIONS : LeadsWith(cleanSql, op)
        isReadOperation == \E op \in READ_OPERATIONS : LeadsWith(cleanSql, op)
    IN  IF isWriteOperation
        THEN [requiresConfirmation |-> TRUE,
              operation |-> firstKeyword,
              riskLevel |-> IF firstKeyword \in {kDELETE, kDROP, kTRUNCATE} THEN "HIGH"
                            ELSE IF firstKeyword = kALTER THEN "HIGH"
                            ELSE IF firstKeyword = kUPDATE THEN "MEDIUM"
                            ELSE IF firstKeyword = kINSERT THEN "LOW"
                            ELSE "MEDIUM"]
        ELSE IF isReadOperation
        THEN [requiresConfirmation |-> FALSE,
              operation |-> firstKeyword,
              riskLevel |-> "LOW"]
        ELSE [requiresConfirmation |-> TRUE,
              operation |-> IF firstKeyword = <<>> THEN kUNKNOWN ELSE firstKeyword,
              riskLevel |-> "HIGH"]

(***************************************************************************)
(* Impact Estimator: the row-count query estimateImpact builds             *)
(***************************************************************************)
SP == <<" ">>
CountPrefix ==
    kSELECT \o SP \o <<"C","O","U","N","T","(","*",")">> \o SP \o <<"A","S">> \o SP
    \o <<"e","s","t","i","m","a","t","e","d","_","r","o","w","s">> \o SP

\* `.` of the regular expressions: any character but a line terminator
IsLineTerminator(c) == c \in {"\n", "\r"}
NoLineTerminator(s, from, to) == \A k \in from..to : ~IsLineTerminator(s[k])

\* sql.replace(/^DELETE\s+/i, 'SELECT COUNT(*) AS estimated_rows ')
\* (the text is returned unchanged when the pattern does not match at position 1)
ReplaceLeadingDelete(sql) ==
    LET n == LeadingSpaces(Drop(sql, Len(kDELETE) + 1))
    IN  IF StartsWith(ToUpperCase(sql), kDELETE) /\ n >= 1
        THEN CountPrefix \o Drop(sql, Len(kDELETE) + n + 1)
        ELSE sql

\* the positions right after a match of  \[?\w+\]?\.?\[?\w+\]?  that starts at i
OptChar(s, P, ch) == P \cup {p + 1 : p \in {q \in P : q <= Len(s) /\ s[q] = ch}}
WordPlus(s, P) ==
    {q \in 2..(Len(s) + 1) : \E p \in P : p < q /\ \A k \in p..(q - 1) : IsWordChar(s[k])}
TableEnds(s, i) ==
    LET p1 == OptChar(s, {i}, "[")
        p2 == WordPlus(s, p1)
        p3 == OptChar(s, p2, "]")
        p4 == OptChar(s, p3, ".")
        p5 == OptChar(s, p4, "[")
        p6 == WordPlus(s, p5)
    IN  OptChar(s, p6, "]")

\* position right after  \s+KEYWORD  matched (ignoring case) at p, or 0
AfterSpacesKeyword(s, p, kw) ==
    LET n == LeadingSpaces(Drop(s, p))
    IN  IF n >= 1 /\ MatchAt(ToUpperCase(s), p + n, kw) THEN p + n + Len(kw) ELSE 0

\* sql.match(/UPDATE\s+(\[?\w+\]?\.?\[?\w+\]?)(?:\s+SET.*?)(\s+WHERE.*)?$/i)
\* tried at position i: the matches there as records [at, table, whereClause].
\* The lazy .*? stops at the first position p from which the rest matches:
\* either \s+WHERE.* up to the end of the text, or the end of the text itself.
UpdateMatchAt(sql, i) ==
    LET n == Len(sql)
        t == i + Len(kUPDATE) + LeadingSpaces(Drop(sql, i + Len(kUPDATE)))
        ends == {e \in TableEnds(sql, t) : AfterSpacesKeyword(sql, e, kSET) # 0}
        Fits(a, p) ==
            /\ NoLineTerminator(sql, a, p - 1)
            /\ \/ /\ AfterSpacesKeyword(sql, p, kWHERE) # 0
                  /\ NoLineTerminator(sql, AfterSpacesKeyword(sql, p, kWHERE), n)
               \/ p = n + 1
        Stops(e) == {p \in AfterSpacesKeyword(sql, e, kSET)..(n + 1) :
                        Fits(AfterSpacesKeyword(sql, e, kSET), p)}
    IN  IF ~MatchAt(ToUpperCase(sql), i, kUPDATE) \/ t = i + Len(kUPDATE) THEN {}
        ELSE { [at |-> i, table |-> SubSeq(sql, t, e - 1),
                whereClause |-> LET w == CHOOSE p \in Stops(e) : \A q \in Stops(e) : p <= q
                                IN  IF w <= n THEN SubSeq(sql, w, n) ELSE <<>>] :
               e \in {x \in ends : Stops(x) # {}} }

\* JavaScript returns the leftmost match
UpdateMatches(sql) == UNION {UpdateMatchAt(sql, i) : i \in 1..Len(sql)}

\* the countQuery of estimateImpact; the empty text when none is built
CountQuery(sql) ==
    LET cleanSql == CleanSql(sql)
    IN  IF StartsWith(cleanSql, kDELETE) THEN ReplaceLeadingDelete(sql)
        ELSE IF StartsWith(cleanSql, kUPDATE)
        THEN LET ms == UpdateMatches(sql)
             IN  IF ms = {} THEN <<>>
                 ELSE LET m == CHOOSE m \in ms : \A o \in ms : m.at <= o.at
                      IN  CountPrefix \o kFROM \o SP \o m.table \o m.whereClause
        ELSE <<>>

\* an advisory that fires from 1000 rows on
LargeImpactWarningFrom1000(estimatedRows) == estimatedRows >= 1000


\* the advisory warning of the estimate
LargeImpactWarning(estimatedRows) == estimatedRows > 1000

\* an estimator that lets the error of its row-count query escape
estimateImpactRaises(ok, rows) ==
    [estimatedRows |-> 0, warning |-> "undefined", threw |-> ~ok]

\* what estimateImpact returns once its row-count query was answered with
\* estimated_rows = rows (ok) or with an error; it raises nothing
estimateImpactResult(ok, rows) ==
    IF ~ok
    THEN [estimatedRows |-> 0,
          warning |-> "Could not estimate the number of affected rows",
          threw |-> FALSE]
    ELSE [estimatedRows |-> rows,
          warning |-> IF LargeImpactWarning(rows)
                      THEN "Large number of rows may be affected" ELSE "undefined",
          threw |-> FALSE]

(***************************************************************************)
(* security.ts: feature flags and the modification-keyword scan            *)
(***************************************************************************)
MODIFICATION_KEYWORDS ==
    {kINSERT, kUPDATE, kDELETE, kDROP, kCREATE, kALTER,
     kTRUNCATE, kMERGE, kBULK, kEXEC, kEXECUTE}

\* number of leading characters of s that `.` matches
RECURSIVE LeadingLineChars(_)
LeadingLineChars(s) ==
    IF s = <<>> \/ IsLineTerminator(Head(s)) THEN 0 ELSE 1 + LeadingLineChars(Tail(s))

\* query.replace(/--.*$/gm, '')
RECURSIVE StripLineComments(_)
StripLineComments(s) ==
    IF s = <<>> THEN <<>>
    ELSE IF MatchAt(s, 1, <<"-","-">>)
    THEN StripLineComments(Drop(s, 1 + LeadingLineChars(s)))
    ELSE <<Head(s)>> \o StripLineComments(Tail(s))

\* query.replace(/\/\*[\s\S]*?\*\//g, ''): an unclosed /* is left in place
RECURSIVE StripBlockComments(_)
StripBlockComments(s) ==
    IF s = <<>> THEN <<>>
    ELSE LET closes == {j \in 3..Len(s) : MatchAt(s, j, <<"*","/">>)}
         IN  IF MatchAt(s, 1, <<"/","*">>) /\ closes # {}
             THEN StripBlockComments(
                      Drop(s, (CHOOSE j \in closes : \A k \in closes : j <= k) + 2))
             ELSE <<Head(s)>> \o StripBlockComments(Tail(s))

\* query.replace(/\s+/g, ' ')
RECURSIVE CollapseSpaces(_)
CollapseSpaces(s) ==
    IF s = <<>> THEN <<>>
    ELSE IF IsSpace(Head(s))
    THEN SP \o CollapseSpaces(Drop(s, 1 + LeadingSpaces(s)))
    ELSE <<Head(s)>> \o CollapseSpaces(Tail(s))

\* new RegExp(`\\b${keyword}\\b`, 'i').test(s)
HasWord(s, keyword) ==
    \E i \in 1..Len(s) :
        /\ MatchAt(ToUpperCase(s), i, keyword)
        /\ (i = 1 \/ ~IsWordChar(s[i - 1]))
        /\ (i + Len(keyword) > Len(s) \/ ~IsWordChar(s[i + Len(keyword)]))

containsModificationOperations(query) ==
    IF query = <<>> THEN FALSE
    ELSE LET cleanQuery ==
                 ToUpperCase(Trim(CollapseSpaces(StripBlockComments(StripLineComments(query)))))
         IN  \E keyword \in MODIFICATION_KEYWORDS : HasWord(cleanQuery, keyword)

\* the verdicts: "allowed", "empty", or the name of the flag that blocks
validateModificationPermission(cfg) ==
    IF ~cfg.ALLOW_MODIFICATIONS THEN "DB_ALLOW_MODIFICATIONS" ELSE "allowed"

validateStoredProcedurePermission(cfg) ==
    IF ~cfg.ALLOW_STORED_PROCEDURES THEN "DB_ALLOW_STORED_PROCEDURES" ELSE "allowed"

\* hasModifications is containsModificationOperations(query)
validateQueryPermission(cfg, query, hasModifications) ==
    IF query = <<>> THEN "empty"
    ELSE IF hasModifications THEN validateModificationPermission(cfg)
    ELSE "allowed"

(***************************************************************************)
(* Stored-procedure whitelist of mcp_execute_procedure                     *)
(***************************************************************************)
usp == <<"u","s","p","_">>
ReadOnlyPrefixes ==
    { usp \o <<"G","e","t">>, usp \o <<"S","e","l","e","c","t">>,
      usp \o <<"S","e","a","r","c","h">>, usp \o <<"F","i","n","d">>,
      usp \o <<"L","i","s","t">>, usp \o <<"V","i","e","w">> }

\* /^(usp_Get|usp_Select|usp_Search|usp_Find|usp_List|usp_View)/i.test(sp_name)
isReadOnlyProcedure(sp_name) ==
    \E pre \in ReadOnlyPrefixes : StartsWith(ToUpperCase(sp_name), ToUpperCase(pre))

(***************************************************************************)
(* Bounds and inputs                                                       *)
(***************************************************************************)
MaxCalls == 3      \* tool calls made in one run
MaxTicks == 2      \* clock advances in one run
MaxRand  == 1      \* distinct values of the random part of a token
MaxConnCalls == 4  \* connectDB and getPool calls made in one run
MaxAttempts == 3   \* connection attempts started in one run

maxAge == 300000   \* 5 * 60 * 1000 milliseconds

Calls == 1..MaxCalls
\* the clock advances by the TTL, so that an entry is seen at the ages 0,
\* maxAge (not yet expired) and 2 * maxAge (expired)
TickSteps == {maxAge}
\* what the database answers to a row-count query: the two sides of the
\* advisory threshold (an error gives estimatedRows = 0)
EstRows == {1000, 1001}

tTab == <<"T","a","b">>
qSelect == kSELECT \o SP \o <<"1">>
qDelete == kDELETE \o SP \o kFROM \o SP \o tTab
qDeleteLeadingSpace == SP \o qDelete
qDeleteBatch == qDelete \o <<";">> \o kDROP \o SP \o <<"T","A","B","L","E">> \o SP \o tTab
qUpdate == kUPDATE \o SP \o tTab \o SP \o kSET \o SP \o <<"a","=","1">>
             \o SP \o kWHERE \o SP \o <<"i","d","=","2">>
qInsert == kINSERT \o SP \o <<"I","N","T","O">> \o SP \o tTab \o SP \o <<"V","A","L","U","E","S","(","1",")">>

GateQueries == {qSelect, qDelete, qDeleteLeadingSpace}

pGetRows == usp \o <<"G","e","t","R","o","w","s">>
pPurge   == usp \o <<"P","u","r","g","e">>
\* a read whose literal holds a write keyword, and a procedure call as a query
qSelectLiteral == kSELECT \o SP \o <<"'">> \o kDROP \o <<"'">>
qExecPurge == kEXEC \o SP \o usp \o <<"P","u","r","g","e">>
\* the statements given to the flag-gated mcp_execute_query
FlaggedQueries == GateQueries \cup {qSelectLiteral, qExecPurge}

\* a whitelisted name in another letter case
pListUpper == <<"U","S","P","_","L","I","S","T">>
GateProcedures == {pGetRows, pPurge, pListUpper}
\* the (sp_name, params) arguments: params is absent, or one parameter map
GateProcedureCalls ==
    {<<pGetRows, "undefined">>, <<pPurge, "{id:1}">>, <<pListUpper, "undefined">>}

(***************************************************************************)
(* The feature flags (security.ts).  An environment value is either unset  *)
(* (undefined) or a string; dotenv puts the strings of .env into           *)
(* process.env before the flags are computed.                              *)
(***************************************************************************)
EnvUnset == [defined |-> FALSE, text |-> <<>>]
EnvString(s) == [defined |-> TRUE, text |-> s]

TruthyWords == {<<"t","r","u","e">>, <<"y","e","s">>, <<"1">>, <<"o","n">>}

\* an enabling word is recognized after trimming (mutation of parseBoolean)
parseBooleanTrimmed(value, defaultValue) ==
    IF ~value.defined \/ value.text = <<>> THEN defaultValue
    ELSE ToLowerCase(Trim(value.text)) \in TruthyWords

\* parseBoolean: !value is true of undefined and of the empty string
parseBoolean(value, defaultValue) ==
    IF ~value.defined \/ value.text = <<>> THEN defaultValue
    ELSE ToLowerCase(value.text) \in TruthyWords

\* the SECURITY_CONFIG object, evaluated once when the module is loaded
LoadSecurityConfig(env) ==
    [ALLOW_MODIFICATIONS     |-> parseBoolean(env.DB_ALLOW_MODIFICATIONS, FALSE),
     ALLOW_STORED_PROCEDURES |-> parseBoolean(env.DB_ALLOW_STORED_PROCEDURES, FALSE)]

\* the module has not been evaluated yet
NoConfig == [loaded |-> FALSE]

\* environment values the gate is run under
GateEnvValues == {EnvUnset, EnvString(<<"t","r","u","e">>)}

\* environment values the flag parser is checked on
ConfigEnvValues ==
    {EnvUnset, EnvString(<<>>),
     EnvString(<<"t","r","u","e">>), EnvString(<<"T","R","U","E">>),
     EnvString(<<"Y","e","s">>), EnvString(<<"1">>), EnvString(<<"O","n">>),
     EnvString(<<"f","a","l","s","e">>), EnvString(<<"0">>), EnvString(<<"n","o">>),
     EnvString(<<"o","f","f">>), EnvString(<<" ","t","r","u","e">>),
     EnvString(<<"t","r","u","e"," ">>), EnvString(<<"t","r","u">>),
     EnvString(<<"e","n","a","b","l","e","d">>), EnvString(<<"1","0">>)}

(***************************************************************************)
(* State                                                                   *)
(***************************************************************************)
VARIABLES
    now,                \* the clock (Date.now()), in milliseconds
    ticks,              \* number of clock advances so far
    process_env,        \* DB_ALLOW_MODIFICATIONS and DB_ALLOW_STORED_PROCEDURES as set
    SECURITY_CONFIG,    \* the two feature flags, read once from the environment
    pendingOperations,  \* the Pending Operation Store: token -> stored operation
    dbLog,              \* every request submitted to the database handle, in order
    auditLog,           \* the lines appended to security_audit.log, in order
    auditWritable,      \* whether fs.appendFileSync succeeds at the moment
    calls,              \* the tool calls: handler, position and locals of each
    clsInput,           \* classifier check: the statement text given
    clsResult,          \* classifier check: what analyzeQuery returned for it
    pool,               \* db module: the connected pool, or NoPool (null)
    isConnecting,       \* db module: a connection attempt is under way
    connectionPromise,  \* db module: the attempt callers wait for, or NoPromise (null)
    attempts,           \* the connection attempts started, with who awaits each
    connCalls,          \* the connectDB and getPool calls: position and result
    jobs                \* the microtask queue: continuations that are ready to run

connVars == <<pool, isConnecting, connectionPromise, attempts, connCalls, jobs>>

gateVars == <<now, ticks, process_env, SECURITY_CONFIG, pendingOperations, dbLog, auditLog,
              auditWritable, calls, clsInput, clsResult>>

vars == <<now, ticks, process_env, SECURITY_CONFIG, pendingOperations, dbLog, auditLog,
          auditWritable, calls, clsInput, clsResult,
          pool, isConnecting, connectionPromise, attempts, connCalls, jobs>>

\* null, for the pool and for the promise; attempt k connects pool k
NoPool == 0
NoPromise == 0

ConnCalls == 1..MaxConnCalls

NoConnCall == [fn |-> "none", pc |-> "idle", awaiting |-> NoPromise, starter |-> FALSE,
               result |-> NoPool]

\* the db module once the server has started: main() has awaited connectDB
Connected ==
    /\ pool = 1
    /\ isConnecting = FALSE
    /\ connectionPromise = 1
    /\ attempts = <<[state |-> "resolved", waiters |-> <<1>>]>>
    /\ connCalls = [c \in ConnCalls |->
           IF c = 1 THEN [fn |-> "connectDB", pc |-> "returned", awaiting |-> 1,
                          starter |-> TRUE, result |-> 1]
           ELSE NoConnCall]
    /\ jobs = <<>>

NoToken == [ts |-> -1, rnd |-> 0]
\* a token no proposal ever returned
BogusToken == [ts |-> 0, rnd |-> 0]
NoText == <<>>
kSTORED_PROCEDURE == <<"S","T","O","R","E","D","_","P","R","O","C","E","D","U","R","E">>
NoOp == [sql |-> NoText, operation |-> NoText, spName |-> NoText, params |-> "undefined"]

\* analyzeQuery has not been applied yet
NoAnalysis == [requiresConfirmation |-> FALSE, operation |-> NoText, riskLevel |-> "none"]

\* no security status asked for
NoStatus == [modifications_enabled |-> FALSE, stored_procedures_enabled |-> FALSE,
             security_level |-> "none", recommendations |-> <<>>]
NoCall == [handler |-> "none", pc |-> "idle", query |-> NoText, spName |-> NoText,
           params |-> "undefined", argToken |-> NoToken, op |-> NoOp,
           outcome |-> "none", token |-> NoToken, flagNamed |-> "none",
           warning |-> "undefined", error |-> "none", status |-> NoStatus,
           message |-> <<>>]

\* the tokens handed out so far
IssuedTokens == {calls[c].token : c \in Calls} \ {NoToken}

\* the next call takes the first free slot
Free(c) ==
    /\ calls[c].handler = "none"
    /\ \A d \in Calls : d < c => calls[d].handler # "none"

(***************************************************************************)
(* securityUtils.ts: audit log, tokens and the pending-operation store     *)
(***************************************************************************)
\* sql.substring(0, 500)
Truncate(sql) == IF Len(sql) > 500 THEN SubSeq(sql, 1, 500) ELSE sql

\* the message of the error the database raises, of the error the audit file
\* raises, and of the reply to a token that is unknown or too old
DbErrorMessage == "Invalid object name 'Tab'."
AuditErrorMessage == "EACCES: permission denied, open 'security_audit.log'"
ExpiredMessage == "Invalid or expired confirmation token. Please generate a new analysis."

\* a logSecurityEvent that lets the error of a failed write escape
logSecurityEventRethrows(writable, event) == ~writable

\* logSecurityEvent raises nothing: its whole body is inside try/catch
logSecurityEventThrows(writable, event) == FALSE

\* logSecurityEvent: the append is lost (and the error swallowed) when the
\* write throws
logSecurityEvent(log, writable, event) ==
    IF writable THEN Append(log, [event EXCEPT !.sql = Truncate(event.sql)]) ELSE log

\* the event handed to logSecurityEvent; besides its fields it carries which
\* call wrote it and how many database requests had been submitted by then
AuditEvent(c, operation, sql, riskLevel, userConfirmed, estimatedRows, result, error) ==
    [by |-> c, operation |-> operation, sql |-> sql, riskLevel |-> riskLevel,
     userConfirmed |-> userConfirmed, estimatedRows |-> estimatedRows,
     result |-> result, error |-> error, requestsBefore |-> Len(dbLog)]

\* generateConfirmationToken: CONF_<Date.now()>_<random>
generateConfirmationToken(t, rnd) == [ts |-> t, rnd |-> rnd]

\* an age test that already fails at exactly maxAge
ExpiredAtMaxAge(timestamp, t) == t - timestamp >= maxAge

\* whether an entry stored at `timestamp` has expired at time t
Expired(timestamp, t) == t - timestamp > maxAge

\* a sweep that removes nothing
cleanupExpiredTokensSkipped(store, t) == store

\* cleanupExpiredTokens
cleanupExpiredTokens(store, t) ==
    [k \in {k \in DOMAIN store : ~Expired(store[k].timestamp, t)} |-> store[k]]

\* storePendingOperation: set, then sweep
storePendingOperation(store, token, operation, t) ==
    cleanupExpiredTokens(
        [k \in DOMAIN store \cup {token} |->
            IF k = token THEN [operation EXCEPT !.timestamp = t] ELSE store[k]], t)

\* what getPendingOperation returns on a miss
null == [sql |-> NoText, operation |-> NoText, riskLevel |-> "none", estimatedRows |-> 0,
         spName |-> NoText, params |-> "undefined", timestamp |-> -1]

\* a lookup that forgets the age check of lines 299-307
getPendingOperationNoExpiry(store, token, t) ==
    IF token \notin DOMAIN store THEN null ELSE store[token]

\* getPendingOperation: what it returns (null or the entry) ...
getPendingOperation(store, token, t) ==
    IF token \notin DOMAIN store THEN null
    ELSE IF Expired(store[token].timestamp, t) THEN null
    ELSE store[token]

\* removePendingOperation
removePendingOperation(store, token) ==
    [k \in DOMAIN store \ {token} |-> store[k]]

\* a lookup that takes the entry out of the store when it returns it
storeAfterGetConsuming(store, token, t) ==
    [k \in DOMAIN store \ {token} |-> store[k]]

\* a lookup that empties the store when it meets an expired entry
storeAfterGetCleared(store, token, t) ==
    IF token \in DOMAIN store /\ Expired(store[token].timestamp, t)
    THEN <<>>
    ELSE store

\* ... and the store it leaves: an expired entry is deleted by the lookup
storeAfterGet(store, token, t) ==
    IF token \in DOMAIN store /\ Expired(store[token].timestamp, t)
    THEN removePendingOperation(store, token)
    ELSE store

DbRequest(c, phase, kind, text, params) ==
    [by |-> c, phase |-> phase, kind |-> kind, text |-> text, params |-> params,
     reply |-> "pending"]

\* the database log once the request call c is waiting for was answered
Answered(c, ok) ==
    [i \in DOMAIN dbLog |->
        IF dbLog[i].by = c /\ dbLog[i].reply = "pending"
        THEN [dbLog[i] EXCEPT !.reply = IF ok THEN "ok" ELSE "error"]
        ELSE dbLog[i]]

PendingOp(sql, operation, riskLevel, estimatedRows, spName, params) ==
    [sql |-> sql, operation |-> operation, riskLevel |-> riskLevel,
     estimatedRows |-> estimatedRows, spName |-> spName, params |-> params,
     timestamp |-> 0]

ExecText(sp_name) == kEXEC \o SP \o sp_name

\* every SQL text a handler can meet in a run, with what the classifier, the
\* estimator and the flag check compute for it (each computed once)
GateTexts == GateQueries \cup FlaggedQueries \cup {ExecText(sp) : sp \in GateProcedures}
Lookup(table, key) == (CHOOSE p \in table : p[1] = key)[2]
analysisTable == {<<sql, analyzeQuery(sql)>> : sql \in GateTexts}
countQueryTable == {<<sql, CountQuery(sql)>> : sql \in GateTexts}
modificationTable == {<<sql, containsModificationOperations(sql)>> : sql \in GateTexts}
readOnlyTable == {<<sp, isReadOnlyProcedure(sp)>> : sp \in GateProcedures}
analysisOf(sql) == Lookup(analysisTable, sql)
countQueryOf(sql) == Lookup(countQueryTable, sql)
readOnlyProcedure(sp_name) == Lookup(readOnlyTable, sp_name)
hasModificationsOf(sql) == Lookup(modificationTable, sql)

(***************************************************************************)
(* Initial state: the server has connected its pool (connectDB is awaited  *)
(* before any tool call is served), the store and the logs are empty, the  *)
(* flags are whatever the environment said.                                *)
(***************************************************************************)
Init ==
    /\ now = 0
    /\ ticks = 0
    /\ process_env \in [DB_ALLOW_MODIFICATIONS : GateEnvValues,
                        DB_ALLOW_STORED_PROCEDURES : GateEnvValues]
    /\ SECURITY_CONFIG = LoadSecurityConfig(process_env)
    /\ pendingOperations = <<>>
    /\ dbLog = <<>>
    /\ auditLog = <<>>
    /\ auditWritable \in BOOLEAN
    /\ calls = [c \in Calls |-> NoCall]
    /\ clsInput = NoText
    /\ clsResult = NoAnalysis
    /\ Connected

\* time passes
Tick(d) ==
    /\ ticks < MaxTicks
    /\ now' = now + d
    /\ ticks' = ticks + 1
    /\ UNCHANGED <<process_env, SECURITY_CONFIG, pendingOperations, dbLog, auditLog,
                   auditWritable, calls, clsInput, clsResult, connVars>>

Frame == UNCHANGED <<now, ticks, process_env, SECURITY_CONFIG, auditWritable, clsInput, clsResult,
                     connVars>>

(***************************************************************************)
(* Flag-gated handlers (dataOperations.ts, first definitions)              *)
(***************************************************************************)
mcp_execute_procedure_flagged(c, sp_name, params) ==
    /\ Free(c)
    /\ LET permission == validateStoredProcedurePermission(SECURITY_CONFIG)
           call == [NoCall EXCEPT !.handler = "mcp_execute_procedure_flagged",
                                  !.spName = sp_name, !.params = params]
       IN  IF permission # "allowed"
           THEN /\ calls' = [calls EXCEPT ![c] =
                       [call EXCEPT !.pc = "done", !.outcome = "BLOCKED",
                                    !.flagNamed = permission]]
                /\ UNCHANGED dbLog
           ELSE /\ calls' = [calls EXCEPT ![c] = [call EXCEPT !.pc = "await_execute"]]
                /\ dbLog' = Append(dbLog, DbRequest(c, "direct", "execute", sp_name, params))
    /\ UNCHANGED <<pendingOperations, auditLog>>
    /\ Frame

mcp_execute_procedure_flagged_reply(c, ok) ==
    /\ calls[c].handler = "mcp_execute_procedure_flagged"
    /\ calls[c].pc = "await_execute"
    /\ calls' = [calls EXCEPT ![c].pc = "done",
                              ![c].outcome = IF ok THEN "EXECUTED" ELSE "FAILED",
                              ![c].error = IF ok THEN "none" ELSE DbErrorMessage]
    /\ dbLog' = Answered(c, ok)
    /\ UNCHANGED <<pendingOperations, auditLog>>
    /\ Frame

mcp_execute_query_flagged(c, query) ==
    /\ Free(c)
    /\ LET permission == validateQueryPermission(SECURITY_CONFIG, query, hasModificationsOf(query))
           call == [NoCall EXCEPT !.handler = "mcp_execute_query_flagged",
                                  !.query = query]
       IN  IF permission # "allowed"
           THEN /\ calls' = [calls EXCEPT ![c] =
                       [call EXCEPT !.pc = "done",
                                    !.outcome = IF permission = "empty" THEN "FAILED"
                                                ELSE "BLOCKED",
                                    !.flagNamed = IF permission = "empty" THEN "none"
                                                  ELSE permission]]
                /\ UNCHANGED dbLog
           ELSE /\ calls' = [calls EXCEPT ![c] = [call EXCEPT !.pc = "await_query"]]
                /\ dbLog' = Append(dbLog, DbRequest(c, "direct", "query", query, "undefined"))
    /\ UNCHANGED <<pendingOperations, auditLog>>
    /\ Frame

mcp_execute_query_flagged_reply(c, ok) ==
    /\ calls[c].handler = "mcp_execute_query_flagged"
    /\ calls[c].pc = "await_query"
    /\ calls' = [calls EXCEPT ![c].pc = "done",
                              ![c].outcome = IF ok THEN "EXECUTED" ELSE "FAILED",
                              ![c].error = IF ok THEN "none" ELSE DbErrorMessage]
    /\ dbLog' = Answered(c, ok)
    /\ UNCHANGED <<pendingOperations, auditLog>>
    /\ Frame

(***************************************************************************)
(* Security status (security.ts, its two texts; objectSearch.ts)           *)
(***************************************************************************)
\* getSecurityStatus as it reads in the English text of security.ts
getSecurityStatus(cfg) ==
    LET modifications == cfg.ALLOW_MODIFICATIONS
        storedProcs == cfg.ALLOW_STORED_PROCEDURES
    IN  [modifications_enabled |-> modifications,
         stored_procedures_enabled |-> storedProcs,
         security_level |->
             IF modifications /\ storedProcs THEN "LOW"
             ELSE IF modifications \/ storedProcs THEN "MEDIUM"
             ELSE "MAXIMUM",
         recommendations |->
             IF modifications /\ storedProcs
             THEN << "[!] Consider disabling modifications in production",
                     "[!] Consider disabling stored procedures in production" >>
             ELSE IF modifications \/ storedProcs
             THEN (IF modifications
                   THEN << "[!] Modifications are enabled - use with caution" >>
                   ELSE << >>) \o
                  (IF storedProcs
                   THEN << "[!] Stored procedures are enabled - use with caution" >>
                   ELSE << >>)
             ELSE << "[OK] Optimal security configuration for production" >>]

\* getSecurityStatus as it reads in the Spanish text of security.ts (the
\* pictograph that opens each recommendation is left out)
getSecurityStatus_es(cfg) ==
    LET modifications == cfg.ALLOW_MODIFICATIONS
        storedProcs == cfg.ALLOW_STORED_PROCEDURES
    IN  [modifications_enabled |-> modifications,
         stored_procedures_enabled |-> storedProcs,
         security_level |->
             IF modifications /\ storedProcs THEN "BAJA"
             ELSE IF modifications \/ storedProcs THEN "MEDIA"
             ELSE "MÁXIMA",
         recommendations |->
             IF modifications /\ storedProcs
             THEN << "Considera deshabilitar modificaciones en producción",
                     "Considera deshabilitar stored procedures en producción" >>
             ELSE IF modifications \/ storedProcs
             THEN (IF modifications
                   THEN << "Las modificaciones están habilitadas - usa con precaución" >>
                   ELSE << >>) \o
                  (IF storedProcs
                   THEN << "Los stored procedures están habilitados - usa con precaución" >>
                   ELSE << >>)
             ELSE << "Configuración de seguridad óptima para producción" >>]

\* the two texts of security.ts
SecurityTexts == {"en", "es"}

\* mcp_get_security_status: report getSecurityStatus() of the security.ts in use
mcp_get_security_status(c, text) ==
    /\ Free(c)
    /\ calls' = [calls EXCEPT ![c] =
           [NoCall EXCEPT !.handler = "mcp_get_security_status", !.pc = "done",
                          !.outcome = "EXECUTED",
                          !.status = IF text = "en" THEN getSecurityStatus(SECURITY_CONFIG)
                                     ELSE getSecurityStatus_es(SECURITY_CONFIG)]]
    /\ UNCHANGED <<pendingOperations, dbLog, auditLog>>
    /\ Frame

(***************************************************************************)
(* Token-gated handlers (dataOperations.ts, second definitions)            *)
(***************************************************************************)
\* what becomes of a call when logSecurityEvent throws inside the handler: the
\* catch block calls logSecurityEvent again, that call throws too, and the
\* promise of the tool call is rejected with the logging error
Rejected(c, call) ==
    /\ calls' = [calls EXCEPT ![c] =
           [call EXCEPT !.pc = "done", !.outcome = "REJECTED",
                        !.error = AuditErrorMessage]]
    /\ UNCHANGED auditLog

\* the tail of a proposal: mint the token, store the operation, audit it as
\* pending and answer SECURITY_CONFIRMATION_REQUIRED with the token
\* one line of the confirmation text: what it says and the value it shows
MessageLine(label, value) == [label |-> label, value |-> value]

\* a confirmation text that does not say that nothing has run yet
createSecurityConfirmationMessageNoFooter(analysis, impact, token, sql, params) ==
    <<MessageLine("Operacion", analysis.operation),
      MessageLine("Nivel de Riesgo", analysis.riskLevel),
      MessageLine("Con el token", token)>>

\* createSecurityConfirmationMessage, line by line (accents and pictographs
\* left out; the line of analysis.reason and the table list are not kept).
\* The statement is shown cut to 200 characters, the row count only when
\* positive, the warning only when there is one.
createSecurityConfirmationMessage(analysis, impact, token, sql, params) ==
    LET shown == IF Len(sql) > 200 THEN SubSeq(sql, 1, 200) ELSE sql
        lines ==
          <<[show |-> TRUE, line |-> MessageLine("Operacion", analysis.operation)],
            [show |-> TRUE, line |-> MessageLine("Nivel de Riesgo", analysis.riskLevel)],
            [show |-> sql # <<>>,
             line |-> MessageLine("SQL", [text |-> shown, cut |-> Len(sql) > 200,
                                          params |-> params])],
            [show |-> impact.estimatedRows > 0,
             line |-> MessageLine("Registros estimados afectados", impact.estimatedRows)],
            [show |-> impact.warning # "undefined",
             line |-> MessageLine("Advertencia", impact.warning)],
            [show |-> TRUE, line |-> MessageLine("Con el token", token)],
            [show |-> TRUE,
             line |-> MessageLine("Este token expira en 5 minutos por seguridad.", "")],
            [show |-> TRUE,
             line |-> MessageLine("La operacion NO se ha ejecutado aun.", "")]>>
        kept == SelectSeq(lines, LAMBDA l : l.show)
    IN  [i \in 1..Len(kept) |-> kept[i].line]

\* the error text a proposal returns: the confirmation text between the
\* SECURITY_CONFIRMATION_REQUIRED prefix and the hint that repeats the token
ConfirmationRequired(confirmationMessage, token) ==
    <<MessageLine("SECURITY_CONFIRMATION_REQUIRED", "")>> \o confirmationMessage
    \o <<MessageLine("To proceed, use the mcp_confirm_and_execute tool with token", token)>>

Propose(c, call, op, auditOperation, rnd) ==
    LET token == generateConfirmationToken(now, rnd)
        confirmationMessage ==
            createSecurityConfirmationMessage(
                [operation |-> auditOperation, riskLevel |-> op.riskLevel],
                [estimatedRows |-> op.estimatedRows, warning |-> call.warning],
                token, op.sql, op.params)
        event == AuditEvent(c, auditOperation, op.sql, op.riskLevel, FALSE,
                            op.estimatedRows, "CANCELLED", "Pending user confirmation")
    IN  /\ pendingOperations' = storePendingOperation(pendingOperations, token, op, now)
        /\ IF logSecurityEventThrows(auditWritable, event)
           THEN Rejected(c, call)
           ELSE /\ auditLog' = logSecurityEvent(auditLog, auditWritable, event)
                /\ calls' = [calls EXCEPT ![c] =
                       [call EXCEPT !.pc = "done", !.outcome = "AWAITING_CONFIRMATION",
                                    !.token = token,
                                    !.message = ConfirmationRequired(confirmationMessage,
                                                                     token)]]

\* a handler that runs every procedure at once, whitelisted or not
mcp_execute_procedure_unconfirmed(c, sp_name, params, rnd) ==
    /\ Free(c)
    /\ calls' = [calls EXCEPT ![c] =
           [NoCall EXCEPT !.handler = "mcp_execute_procedure", !.spName = sp_name,
                          !.params = params, !.pc = "await_execute"]]
    /\ dbLog' = Append(dbLog, DbRequest(c, "direct", "execute", sp_name, params))
    /\ UNCHANGED <<pendingOperations, auditLog>>
    /\ Frame

mcp_execute_procedure(c, sp_name, params, rnd) ==
    /\ Free(c)
    /\ LET call == [NoCall EXCEPT !.handler = "mcp_execute_procedure",
                                  !.spName = sp_name, !.params = params]
       IN  IF readOnlyProcedure(sp_name)
           THEN /\ calls' = [calls EXCEPT ![c] = [call EXCEPT !.pc = "await_execute"]]
                /\ dbLog' = Append(dbLog, DbRequest(c, "direct", "execute", sp_name, params))
                /\ UNCHANGED <<pendingOperations, auditLog>>
           ELSE /\ Propose(c, call,
                       PendingOp(ExecText(sp_name), kSTORED_PROCEDURE, "MEDIUM", 0,
                                 sp_name, params), kEXECUTE, rnd)
                /\ UNCHANGED dbLog
    /\ Frame

mcp_execute_procedure_reply(c, ok) ==
    /\ calls[c].handler = "mcp_execute_procedure"
    /\ calls[c].pc = "await_execute"
    /\ LET event == IF ok
                    THEN AuditEvent(c, kEXECUTE, ExecText(calls[c].spName), "LOW", FALSE,
                                    0, "SUCCESS", "none")
                    ELSE AuditEvent(c, kEXECUTE, ExecText(calls[c].spName), "MEDIUM",
                                    FALSE, 0, "FAILED", DbErrorMessage)
       IN  IF logSecurityEventThrows(auditWritable, event)
           THEN Rejected(c, calls[c])
           ELSE /\ auditLog' = logSecurityEvent(auditLog, auditWritable, event)
                /\ calls' = [calls EXCEPT
                       ![c].pc = "done",
                       ![c].outcome = IF ok THEN "EXECUTED" ELSE "FAILED",
                       ![c].error = IF ok THEN "none" ELSE DbErrorMessage]
    /\ dbLog' = Answered(c, ok)
    /\ UNCHANGED pendingOperations
    /\ Frame

\* mcp_execute_query runs a statement at once exactly when the classifier
\* asks for no confirmation
ExecutesDirectly(analysis) == ~analysis.requiresConfirmation

mcp_execute_query(c, query, rnd) ==
    /\ Free(c)
    /\ LET analysis == analysisOf(query)
           countQuery == countQueryOf(query)
           call == [NoCall EXCEPT !.handler = "mcp_execute_query",
                                  !.query = query]
           event == AuditEvent(c, analysis.operation, query, analysis.riskLevel,
                               FALSE, 0, "SUCCESS", "none")
       IN  IF ExecutesDirectly(analysis)
           THEN \* the SUCCESS event is written before the query is sent
                /\ IF logSecurityEventThrows(auditWritable, event)
                   THEN /\ Rejected(c, call)
                        /\ UNCHANGED dbLog
                   ELSE /\ auditLog' = logSecurityEvent(auditLog, auditWritable, event)
                        /\ dbLog' = Append(dbLog,
                               DbRequest(c, "direct", "query", query, "undefined"))
                        /\ calls' = [calls EXCEPT ![c] =
                               [call EXCEPT !.pc = "await_query"]]
                /\ UNCHANGED pendingOperations
           ELSE IF countQuery # NoText
           THEN \* estimateImpact sends its row-count query
                /\ dbLog' = Append(dbLog,
                       DbRequest(c, "estimate", "query", countQuery, "undefined"))
                /\ calls' = [calls EXCEPT ![c] = [call EXCEPT !.pc = "await_estimate"]]
                /\ UNCHANGED <<pendingOperations, auditLog>>
           ELSE /\ Propose(c, call,
                       PendingOp(query, analysis.operation, analysis.riskLevel, 0,
                                 NoText, "undefined"), analysis.operation, rnd)
                /\ UNCHANGED dbLog
    /\ Frame

\* the catch block of mcp_execute_query: audit FAILED, return the message
QueryFailed(c) ==
    LET analysis == analysisOf(calls[c].query)
        event == AuditEvent(c, analysis.operation, calls[c].query, analysis.riskLevel,
                            FALSE, 0, "FAILED", DbErrorMessage)
    IN  IF logSecurityEventThrows(auditWritable, event)
        THEN Rejected(c, calls[c])
        ELSE /\ auditLog' = logSecurityEvent(auditLog, auditWritable, event)
             /\ calls' = [calls EXCEPT ![c].pc = "done", ![c].outcome = "FAILED",
                                       ![c].error = DbErrorMessage]

\* the database answers the directly executed query
mcp_execute_query_reply(c, ok) ==
    /\ calls[c].handler = "mcp_execute_query"
    /\ calls[c].pc = "await_query"
    /\ IF ok
       THEN /\ calls' = [calls EXCEPT ![c].pc = "done", ![c].outcome = "EXECUTED"]
            /\ UNCHANGED auditLog
       ELSE QueryFailed(c)
    /\ dbLog' = Answered(c, ok)
    /\ UNCHANGED pendingOperations
    /\ Frame

\* the database answers the row-count query of estimateImpact
mcp_execute_query_estimated(c, ok, rows, rnd) ==
    /\ calls[c].handler = "mcp_execute_query"
    /\ calls[c].pc = "await_estimate"
    /\ LET analysis == analysisOf(calls[c].query)
           impact == estimateImpactResult(ok, rows)
       IN  IF impact.threw
           THEN /\ QueryFailed(c)
                /\ UNCHANGED pendingOperations
           ELSE Propose(c, [calls[c] EXCEPT !.warning = impact.warning],
                        PendingOp(calls[c].query, analysis.operation, analysis.riskLevel,
                                  impact.estimatedRows, NoText, "undefined"),
                        analysis.operation, rnd)
    /\ dbLog' = Answered(c, ok)
    /\ Frame

kFAILED_CONFIRMATION ==
    <<"F","A","I","L","E","D","_","C","O","N","F","I","R","M","A","T","I","O","N">>

\* mcp_confirm_and_execute up to its first await: look the token up and, on a
\* hit, submit the stored operation to the database
mcp_confirm_and_execute(c, confirmation_token) ==
    /\ Free(c)
    /\ LET pendingOp == getPendingOperation(pendingOperations, confirmation_token, now)
           call == [NoCall EXCEPT !.handler = "mcp_confirm_and_execute",
                                  !.argToken = confirmation_token]
       IN  /\ pendingOperations' = storeAfterGet(pendingOperations, confirmation_token, now)
           /\ IF pendingOp = null
              THEN /\ calls' = [calls EXCEPT ![c] =
                          [call EXCEPT !.pc = "done", !.outcome = "EXPIRED",
                                       !.error = ExpiredMessage]]
                   /\ UNCHANGED dbLog
              ELSE /\ calls' = [calls EXCEPT ![c] =
                          [call EXCEPT !.pc = "await_execute",
                                       !.op = [sql |-> pendingOp.sql,
                                               operation |-> pendingOp.operation,
                                               spName |-> pendingOp.spName,
                                               params |-> pendingOp.params]]]
                   /\ dbLog' = Append(dbLog,
                          IF pendingOp.operation = kSTORED_PROCEDURE
                          THEN DbRequest(c, "execute", "execute",
                                         IF pendingOp.spName # NoText THEN pendingOp.spName
                                         ELSE pendingOp.sql,
                                         pendingOp.params)
                          ELSE DbRequest(c, "execute", "query", pendingOp.sql, "undefined"))
    /\ UNCHANGED auditLog
    /\ Frame

\* audit of a confirmed execution that succeeded
ConfirmSuccess(c, estimatedRows) ==
    LET analysis == analysisOf(calls[c].op.sql)
        event == AuditEvent(c, analysis.operation, calls[c].op.sql, analysis.riskLevel,
                            TRUE, estimatedRows, "SUCCESS", "none")
    IN  IF logSecurityEventThrows(auditWritable, event)
        THEN Rejected(c, calls[c])
        ELSE /\ auditLog' = logSecurityEvent(auditLog, auditWritable, event)
             /\ calls' = [calls EXCEPT ![c].pc = "done", ![c].outcome = "EXECUTED"]

\* a catch block that answers with a message of its own
ConfirmFailedGeneric(c) ==
    LET event == AuditEvent(c, kUNKNOWN, kFAILED_CONFIRMATION, "HIGH", TRUE, 0,
                            "FAILED", DbErrorMessage)
    IN  /\ auditLog' = logSecurityEvent(auditLog, auditWritable, event)
        /\ calls' = [calls EXCEPT ![c].pc = "done", ![c].outcome = "FAILED",
                                  ![c].error = "Operation failed"]

\* the catch block of mcp_confirm_and_execute: audit FAILED, return the message
ConfirmFailed(c) ==
    LET event == AuditEvent(c, kUNKNOWN, kFAILED_CONFIRMATION, "HIGH", TRUE, 0,
                            "FAILED", DbErrorMessage)
    IN  IF logSecurityEventThrows(auditWritable, event)
        THEN Rejected(c, calls[c])
        ELSE /\ auditLog' = logSecurityEvent(auditLog, auditWritable, event)
             /\ calls' = [calls EXCEPT ![c].pc = "done", ![c].outcome = "FAILED",
                                       ![c].error = DbErrorMessage]

\* the database answers the confirmed operation
mcp_confirm_and_execute_reply(c, ok) ==
    /\ calls[c].handler = "mcp_confirm_and_execute"
    /\ calls[c].pc = "await_execute"
    /\ IF ok
       THEN /\ pendingOperations' = removePendingOperation(pendingOperations, calls[c].argToken)
            /\ IF countQueryOf(calls[c].op.sql) # NoText
               THEN \* estimateImpact is run again for the audit record
                    /\ dbLog' = Append(Answered(c, ok),
                           DbRequest(c, "post_estimate", "query",
                                     countQueryOf(calls[c].op.sql), "undefined"))
                    /\ calls' = [calls EXCEPT ![c].pc = "await_estimate"]
                    /\ UNCHANGED auditLog
               ELSE /\ ConfirmSuccess(c, 0)
                    /\ dbLog' = Answered(c, ok)
       ELSE /\ ConfirmFailed(c)
            /\ dbLog' = Answered(c, ok)
            /\ UNCHANGED pendingOperations
    /\ Frame

\* the database answers the row-count query sent after the execution
mcp_confirm_and_execute_estimated(c, ok, rows) ==
    /\ calls[c].handler = "mcp_confirm_and_execute"
    /\ calls[c].pc = "await_estimate"
    /\ LET impact == estimateImpactResult(ok, rows)
       IN  IF impact.threw THEN ConfirmFailed(c)
           ELSE ConfirmSuccess(c, impact.estimatedRows)
    /\ dbLog' = Answered(c, ok)
    /\ UNCHANGED pendingOperations
    /\ Frame

Next ==
    \/ \E d \in TickSteps : Tick(d)
    \/ \E c \in Calls, a \in GateProcedureCalls, r \in 1..MaxRand :
           mcp_execute_procedure(c, a[1], a[2], r)
    \/ \E c \in Calls, ok \in BOOLEAN : mcp_execute_procedure_reply(c, ok)
    \/ \E c \in Calls, q \in GateQueries, r \in 1..MaxRand : mcp_execute_query(c, q, r)
    \/ \E c \in Calls, ok \in BOOLEAN : mcp_execute_query_reply(c, ok)
    \/ \E c \in Calls, ok \in BOOLEAN, rows \in EstRows, r \in 1..MaxRand :
           mcp_execute_query_estimated(c, ok, rows, r)
    \/ \E c \in Calls, t \in IssuedTokens \cup {BogusToken} : mcp_confirm_and_execute(c, t)
    \/ \E c \in Calls, ok \in BOOLEAN : mcp_confirm_and_execute_reply(c, ok)
    \/ \E c \in Calls, ok \in BOOLEAN, rows \in EstRows :
           mcp_confirm_and_execute_estimated(c, ok, rows)

\* the token-gated revision of the handlers
Spec == Init /\ [][Next]_vars

(***************************************************************************)
(* The same handlers behind the dispatcher of server-npx.ts, which hands   *)
(* over request.params.arguments || {} as it came: the query argument may  *)
(* be missing or may be no string.                                         *)
(***************************************************************************)
QueryTypes == {"undefined", "number"}

\* sql.trim() of analyzeQuery raises a TypeError on anything but a string
analyzeQueryThrows(queryType) == queryType # "string"

TypeErrorMessage(queryType) ==
    IF queryType = "undefined"
    THEN "Cannot read properties of undefined (reading 'trim')"
    ELSE "sql.trim is not a function"

\* mcp_execute_query with a query that is no string: analyzeQuery throws in
\* the try block, the catch block calls analyzeQuery(query) again before it
\* logs or returns anything, and that second error leaves the handler
mcp_execute_query_untyped(c, queryType) ==
    /\ Free(c)
    /\ analyzeQueryThrows(queryType)
    /\ calls' = [calls EXCEPT ![c] =
           [NoCall EXCEPT !.handler = "mcp_execute_query", !.pc = "done",
                          !.outcome = "REJECTED",
                          !.error = TypeErrorMessage(queryType)]]
    /\ UNCHANGED <<pendingOperations, dbLog, auditLog>>
    /\ Frame

NextDispatched ==
    \/ Next
    \/ \E c \in Calls, queryType \in QueryTypes : mcp_execute_query_untyped(c, queryType)

SpecDispatched == Init /\ [][NextDispatched]_vars

(***************************************************************************)
(* The tool-call layer: the registry the server lists, the handlers that   *)
(* tools/index.ts exports, and the CallToolRequest handler of              *)
(* server-npx.ts, which looks the handler up by the tool's name.           *)
(***************************************************************************)
\* the names of MCP_MSQL_TOOLS
MCP_MSQL_TOOLS ==
    {"mcp_table_analysis", "mcp_sp_structure", "mcp_preview_data", "mcp_get_column_stats",
     "mcp_execute_procedure", "mcp_execute_query", "mcp_quick_data_analysis",
     "mcp_search_comprehensive", "mcp_get_dependencies", "mcp_get_sample_values",
     "mcp_get_security_status"}

\* the names tools/index.ts exports
toolHandlers ==
    {"mcp_table_analysis", "mcp_sp_structure", "mcp_get_sp_all_info_simple",
     "mcp_preview_data", "mcp_preview_data_enhanced", "mcp_get_column_stats",
     "mcp_get_column_stats_enhanced", "mcp_quick_data_analysis", "mcp_get_sample_values",
     "mcp_execute_procedure", "mcp_execute_query",
     "mcp_search_comprehensive", "mcp_get_dependencies", "mcp_search_objects_by_name",
     "mcp_search_in_definitions", "mcp_search_objects_by_type",
     "mcp_get_object_dependencies", "mcp_get_security_status"}

UnknownToolMessage == "Error: Unknown tool: mcp_confirm_and_execute"

\* the dispatcher finds no handler under the name: it throws, catches its own
\* error and answers with isError and the text "Error: Unknown tool: <name>"
UnknownTool(c, confirmation_token) ==
    /\ Free(c)
    /\ calls' = [calls EXCEPT ![c] =
           [NoCall EXCEPT !.handler = "CallToolRequest", !.pc = "done",
                          !.argToken = confirmation_token,
                          !.outcome = "UNKNOWN_TOOL", !.error = UnknownToolMessage]]
    /\ UNCHANGED <<pendingOperations, dbLog, auditLog>>
    /\ Frame

\* a tool call named mcp_execute_procedure
CallTool_mcp_execute_procedure(c, sp_name, params, rnd) ==
    /\ "mcp_execute_procedure" \in toolHandlers
    /\ mcp_execute_procedure(c, sp_name, params, rnd)

\* a tool call named mcp_execute_query, with a string or with something else
CallTool_mcp_execute_query(c, query, rnd) ==
    /\ "mcp_execute_query" \in toolHandlers
    /\ mcp_execute_query(c, query, rnd)

CallTool_mcp_execute_query_untyped(c, queryType) ==
    /\ "mcp_execute_query" \in toolHandlers
    /\ mcp_execute_query_untyped(c, queryType)

\* a tool call named mcp_confirm_and_execute
CallTool_mcp_confirm_and_execute(c, confirmation_token) ==
    IF "mcp_confirm_and_execute" \in toolHandlers
    THEN mcp_confirm_and_execute(c, confirmation_token)
    ELSE UnknownTool(c, confirmation_token)

\* every call comes in through the dispatcher.  No call ever enters
\* mcp_confirm_and_execute, so the steps that follow its awaits do not occur.
NextServer ==
    \/ \E d \in TickSteps : Tick(d)
    \/ \E c \in Calls, a \in GateProcedureCalls, r \in 1..MaxRand :
           CallTool_mcp_execute_procedure(c, a[1], a[2], r)
    \/ \E c \in Calls, ok \in BOOLEAN : mcp_execute_procedure_reply(c, ok)
    \/ \E c \in Calls, q \in GateQueries, r \in 1..MaxRand :
           CallTool_mcp_execute_query(c, q, r)
    \/ \E c \in Calls, queryType \in QueryTypes :
           CallTool_mcp_execute_query_untyped(c, queryType)
    \/ \E c \in Calls, ok \in BOOLEAN : mcp_execute_query_reply(c, ok)
    \/ \E c \in Calls, ok \in BOOLEAN, rows \in EstRows, r \in 1..MaxRand :
           mcp_execute_query_estimated(c, ok, rows, r)
    \/ \E c \in Calls, t \in IssuedTokens \cup {BogusToken} :
           CallTool_mcp_confirm_and_execute(c, t)

SpecServer == Init /\ [][NextServer]_vars

(***************************************************************************)
(* The connection state of the db module: connectDB and getPool.  The code *)
(* of a call runs without interruption from one await to the next; a       *)
(* continuation that has become ready waits in the microtask queue, which  *)
(* is emptied in order before the next outside event (a new call, the      *)
(* driver settling a connection attempt, a pool event) is handled.         *)
(***************************************************************************)
InitConnect ==
    /\ now = 0
    /\ ticks = 0
    /\ process_env = [DB_ALLOW_MODIFICATIONS |-> EnvUnset, DB_ALLOW_STORED_PROCEDURES |-> EnvUnset]
    /\ SECURITY_CONFIG = LoadSecurityConfig(process_env)
    /\ pendingOperations = <<>>
    /\ dbLog = <<>>
    /\ auditLog = <<>>
    /\ auditWritable = TRUE
    /\ calls = [c \in Calls |-> NoCall]
    /\ clsInput = NoText
    /\ clsResult = NoAnalysis
    /\ pool = NoPool
    /\ isConnecting = FALSE
    /\ connectionPromise = NoPromise
    /\ attempts = <<>>
    /\ connCalls = [c \in ConnCalls |-> NoConnCall]
    /\ jobs = <<>>

FreeConn(c) ==
    /\ connCalls[c].fn = "none"
    /\ \A d \in ConnCalls : d < c => connCalls[d].fn # "none"

Job(kind, c) == [kind |-> kind, caller |-> c]

\* connectDB from its entry to its first await or its return; q is the
\* microtask queue the call's continuation is put on
connectDB_enter(c, q) ==
    /\ FreeConn(c)
    /\ IF pool # NoPool
       THEN \* already connected: return the pool
            /\ connCalls' = [connCalls EXCEPT ![c] =
                   [NoConnCall EXCEPT !.fn = "connectDB", !.pc = "returned",
                                      !.result = pool]]
            /\ jobs' = Append(q, Job("continuation", c))
            /\ UNCHANGED <<pool, isConnecting, connectionPromise, attempts>>
       ELSE IF isConnecting /\ connectionPromise # NoPromise
       THEN \* an attempt is under way: await its promise
            /\ connCalls' = [connCalls EXCEPT ![c] =
                   [NoConnCall EXCEPT !.fn = "connectDB", !.pc = "await",
                                      !.awaiting = connectionPromise]]
            /\ attempts' = [attempts EXCEPT ![connectionPromise].waiters = Append(@, c)]
            /\ jobs' = IF attempts[connectionPromise].state = "pending" THEN q
                       ELSE Append(q, Job("resume", c))
            /\ UNCHANGED <<pool, isConnecting, connectionPromise>>
       ELSE \* start a new connection and await it
            /\ Len(attempts) < MaxAttempts
            /\ isConnecting' = TRUE
            /\ connectionPromise' = Len(attempts) + 1
            /\ attempts' = Append(attempts, [state |-> "pending", waiters |-> <<c>>])
            /\ connCalls' = [connCalls EXCEPT ![c] =
                   [NoConnCall EXCEPT !.fn = "connectDB", !.pc = "await",
                                      !.awaiting = Len(attempts) + 1, !.starter = TRUE]]
            /\ jobs' = q
            /\ UNCHANGED pool

\* a call of connectDB made from outside (a new task)
connectDB(c) ==
    /\ jobs = <<>>
    /\ connectDB_enter(c, jobs)
    /\ UNCHANGED gateVars

\* the driver settles attempt k: everyone awaiting its promise becomes ready,
\* in the order in which they began to wait
ConnectionPool_connect(k, ok) ==
    /\ jobs = <<>>
    /\ k \in DOMAIN attempts
    /\ attempts[k].state = "pending"
    /\ attempts' = [attempts EXCEPT ![k].state = IF ok THEN "resolved" ELSE "rejected"]
    /\ jobs' = [i \in 1..Len(attempts[k].waiters) |-> Job("resume", attempts[k].waiters[i])]
    /\ UNCHANGED <<pool, isConnecting, connectionPromise, connCalls>>
    /\ UNCHANGED gateVars

\* connectDB after its await: with the pool (the call that started the
\* attempt stores it and clears isConnecting), or in the catch block, which
\* resets the three variables and throws
connectDB_resume ==
    /\ jobs # <<>>
    /\ Head(jobs).kind = "resume"
    /\ LET c == Head(jobs).caller
           k == connCalls[c].awaiting
       IN  /\ IF attempts[k].state = "resolved"
              THEN /\ connCalls' = [connCalls EXCEPT ![c].pc = "returned", ![c].result = k]
                   /\ IF connCalls[c].starter
                      THEN pool' = k /\ isConnecting' = FALSE
                      ELSE UNCHANGED <<pool, isConnecting>>
                   /\ UNCHANGED connectionPromise
              ELSE /\ connCalls' = [connCalls EXCEPT ![c].pc = "threw"]
                   /\ pool' = NoPool
                   /\ isConnecting' = FALSE
                   /\ connectionPromise' = NoPromise
           /\ jobs' = Append(Tail(jobs), Job("continuation", c))
    /\ UNCHANGED attempts
    /\ UNCHANGED gateVars

\* the caller of a finished connectDB goes on without calling it again ...
CallerMovesOn ==
    /\ jobs # <<>>
    /\ Head(jobs).kind = "continuation"
    /\ jobs' = Tail(jobs)
    /\ UNCHANGED <<pool, isConnecting, connectionPromise, attempts, connCalls>>
    /\ UNCHANGED gateVars

\* ... or calls connectDB again at once (a retry)
CallerCallsAgain(d) ==
    /\ jobs # <<>>
    /\ Head(jobs).kind = "continuation"
    /\ connectDB_enter(d, Tail(jobs))
    /\ UNCHANGED gateVars

\* getPool: the pool, or the error 'Database not connected. Call connectDB first.'
getPool(c) ==
    /\ jobs = <<>>
    /\ FreeConn(c)
    /\ connCalls' = [connCalls EXCEPT ![c] =
           [NoConnCall EXCEPT !.fn = "getPool",
                              !.pc = IF pool = NoPool THEN "threw" ELSE "returned",
                              !.result = pool]]
    /\ UNCHANGED <<pool, isConnecting, connectionPromise, attempts, jobs>>
    /\ UNCHANGED gateVars

\* db.js only: pool k, on which connectDB has put its handlers, emits 'error'
\* or 'close'; the handler resets the three variables (pool.connected is
\* taken to be true of the pool that is stored)
PoolEvent(k) ==
    /\ jobs = <<>>
    /\ k \in DOMAIN attempts
    /\ attempts[k].state = "resolved"
    /\ connCalls[attempts[k].waiters[1]].pc = "returned"   \* handlers are on
    /\ pool' = NoPool
    /\ isConnecting' = FALSE
    /\ connectionPromise' = NoPromise
    /\ UNCHANGED <<attempts, connCalls, jobs>>
    /\ UNCHANGED gateVars

NextConnect ==
    \/ \E c \in ConnCalls : connectDB(c)
    \/ \E k \in 1..MaxAttempts, ok \in BOOLEAN : ConnectionPool_connect(k, ok)
    \/ connectDB_resume
    \/ CallerMovesOn
    \/ \E d \in ConnCalls : CallerCallsAgain(d)
    \/ \E c \in ConnCalls : getPool(c)

\* connectDB and getPool of dataOperations.ts
SpecConnect == InitConnect /\ [][NextConnect]_vars

NextConnectDist ==
    \/ NextConnect
    \/ \E k \in 1..MaxAttempts : PoolEvent(k)

\* connectDB and getPool of dist/db.js
SpecConnectDist == InitConnect /\ [][NextConnectDist]_vars

NextFlagged ==
    \/ \E c \in Calls, a \in GateProcedureCalls : mcp_execute_procedure_flagged(c, a[1], a[2])
    \/ \E c \in Calls, ok \in BOOLEAN : mcp_execute_procedure_flagged_reply(c, ok)
    \/ \E c \in Calls, q \in FlaggedQueries : mcp_execute_query_flagged(c, q)
    \/ \E c \in Calls, ok \in BOOLEAN : mcp_execute_query_flagged_reply(c, ok)
    \/ \E c \in Calls, text \in SecurityTexts : mcp_get_security_status(c, text)

\* the flag-gated revision of the handlers
SpecFlagged == Init /\ [][NextFlagged]_vars

(***************************************************************************)
(* The classifier applied to statement texts                               *)
(***************************************************************************)
\* what may precede the leading word: nothing, white space, a comment
ClassifierLeads ==
    { <<>>, SP, <<"\n","\t">>,
      <<"-","-"," ","c","\n">>, <<"/","*"," ","c"," ","*","/"," ">> }
\* the leading word: every listed keyword, keywords in lower or mixed case,
\* longer words that begin with a keyword, unlisted words, and no word at all
ClassifierWords ==
    WRITE_OPERATIONS \cup READ_OPERATIONS \cup
    { <<"s","e","l","e","c","t">>, <<"D","e","l","e","t","e">>, <<"w","i","t","h">>,
      kSELECT \o <<"E","D">>, kSELECT \o <<"_","p","u","r","g","e">>,
      kWITH \o <<"D","R","A","W">>, kSHOW \o <<"N">>, kDESC \o <<"E","N","D">>,
      kDELETE \o <<"D">>, kDROP \o <<"S">>, kINSERT \o <<"E","D">>,
      <<"G","R","A","N","T">>, <<"f","o","o">>, <<>> }
\* what may follow the leading word
ClassifierRests ==
    { <<>>, SP \o <<"x">>, <<"\t","x">>, <<"/","*","*","/","x">>, <<";","x">>,
      <<"(","x",")">> }
ClassifierInputs ==
    {lead \o word \o rest :
        lead \in ClassifierLeads, word \in ClassifierWords, rest \in ClassifierRests}

InitClassifier ==
    /\ now = 0
    /\ ticks = 0
    /\ process_env = [DB_ALLOW_MODIFICATIONS |-> EnvUnset, DB_ALLOW_STORED_PROCEDURES |-> EnvUnset]
    /\ SECURITY_CONFIG = LoadSecurityConfig(process_env)
    /\ pendingOperations = <<>>
    /\ dbLog = <<>>
    /\ auditLog = <<>>
    /\ auditWritable = TRUE
    /\ calls = [c \in Calls |-> NoCall]
    /\ clsInput \in ClassifierInputs
    /\ clsResult = NoAnalysis
    /\ Connected

Classify ==
    /\ clsResult = NoAnalysis
    /\ clsResult' = analyzeQuery(clsInput)
    /\ UNCHANGED <<now, ticks, process_env, SECURITY_CONFIG, pendingOperations, dbLog,
                   auditLog, auditWritable, calls, clsInput, connVars>>

NextClassifier == Classify

SpecClassifier == InitClassifier /\ [][NextClassifier]_vars

(***************************************************************************)
(* The flags as a function of the environment: the process starts with any *)
(* pair of environment values and security.ts is evaluated once.           *)
(***************************************************************************)
InitConfig ==
    /\ now = 0
    /\ ticks = 0
    /\ process_env \in [DB_ALLOW_MODIFICATIONS : ConfigEnvValues,
                        DB_ALLOW_STORED_PROCEDURES : ConfigEnvValues]
    /\ SECURITY_CONFIG = NoConfig
    /\ pendingOperations = <<>>
    /\ dbLog = <<>>
    /\ auditLog = <<>>
    /\ auditWritable = TRUE
    /\ calls = [c \in Calls |-> NoCall]
    /\ clsInput = NoText
    /\ clsResult = NoAnalysis
    /\ Connected

LoadConfig ==
    /\ SECURITY_CONFIG = NoConfig
    /\ SECURITY_CONFIG' = LoadSecurityConfig(process_env)
    /\ UNCHANGED <<now, ticks, process_env, pendingOperations, dbLog, auditLog,
                   auditWritable, calls, clsInput, clsResult, connVars>>

NextConfig == LoadConfig

SpecConfig == InitConfig /\ [][NextConfig]_vars

(***************************************************************************)
(* Properties                                                              *)
(***************************************************************************)
IsConfirm(c) == calls[c].handler = "mcp_confirm_and_execute"
\* a proposal that answered with a token
IsProposal(p) == calls[p].outcome = "AWAITING_CONFIRMATION"
\* the confirm calls that presented the token proposal p returned, in the
\* order they were made (calls take their slots in order)
ConfirmsOf(p) == {c \in Calls : c > p /\ IsConfirm(c) /\ calls[c].argToken = calls[p].token}
DbRequestsBy(cs) == {i \in DOMAIN dbLog : dbLog[i].by \in cs}
AuditEventsBy(cs) == {i \in DOMAIN auditLog : auditLog[i].by \in cs}
\* request i submits the very operation proposal p proposed
SubmitsProposed(i, p) ==
    IF calls[p].handler = "mcp_execute_procedure"
    THEN dbLog[i].kind = "execute" /\ dbLog[i].text = calls[p].spName
    ELSE dbLog[i].kind = "query" /\ dbLog[i].text = calls[p].query

\* C1: of two concurrent mcp_confirm_and_execute calls that carry the same
\* token, at most one submits the stored operation to the database: the two
\* are never both waiting for the database to finish executing it.
C1_OneConcurrentConfirmExecutes ==
    \A c1, c2 \in Calls :
        (/\ c1 # c2
         /\ IsConfirm(c1) /\ IsConfirm(c2)
         /\ calls[c1].argToken = calls[c2].argToken
         /\ calls[c1].pc = "await_execute")
        => calls[c2].pc # "await_execute"

\* C2: over the life of a token the proposed operation is submitted to the
\* database at most once by the proposal and the first confirm of its token
\* together (estimate, execution and post-confirm estimate all counted), and
\* exactly once when that confirm has hit and finished; every later confirm of
\* the token that has finished returned EXPIRED and made no database call.
C2_ExecutesExactlyOnce ==
    \A p \in Calls :
        (IsProposal(p) /\ ConfirmsOf(p) # {}) =>
            LET first == CHOOSE c \in ConfirmsOf(p) : \A d \in ConfirmsOf(p) : c <= d
                runs  == Cardinality({i \in DbRequestsBy({p, first}) : SubmitsProposed(i, p)})
            IN  /\ runs <= 1
                /\ (calls[first].pc = "done" /\ calls[first].outcome \in {"EXECUTED", "FAILED"}) =>
                       /\ runs = 1
                       /\ \A c \in ConfirmsOf(p) \ {first} :
                              calls[c].pc = "done" =>
                                  /\ calls[c].outcome = "EXPIRED"
                                  /\ DbRequestsBy({c}) = {}

\* C3: while a statement that requires confirmation is being proposed, the
\* only text sent to the database is the rewritten row-count query, never the
\* statement itself.
C3_EstimateNeverSubmitsStatement ==
    \A i \in DOMAIN dbLog :
        dbLog[i].phase = "estimate" =>
            /\ dbLog[i].text # calls[dbLog[i].by].query
            /\ StartsWith(dbLog[i].text, CountPrefix)

\* C4: a mcp_confirm_and_execute call made with an issued token more than
\* maxAge after the token's operation was stored returns the invalid-or-expired
\* error and submits nothing to the database, whether the entry is still in the
\* store or has been swept.
C4_ExpiredTokenNeverExecutes ==
    [][\A c \in Calls, t \in IssuedTokens :
          (/\ Free(c)
           /\ calls'[c].handler = "mcp_confirm_and_execute"
           /\ calls'[c].argToken = t
           /\ now > t.ts + maxAge)
          => (calls'[c].outcome = "EXPIRED" /\ dbLog' = dbLog)]_vars

\* a confirm of an issued token that no other call ever confirmed has missed:
\* the entry had expired when it was looked up
C4_Witness ==
    \E c \in Calls :
        /\ IsConfirm(c)
        /\ calls[c].argToken \in IssuedTokens
        /\ calls[c].outcome = "EXPIRED"
        /\ now > calls[c].argToken.ts + maxAge
        /\ \A d \in Calls \ {c} : IsConfirm(d) => calls[d].argToken # calls[c].argToken

\* C5: once a confirm of a token has hit, attempted the execution and
\* finished (with success or with a database error), every confirm of that
\* token made afterwards returns EXPIRED.
C5_TokenInvalidAfterAttempt ==
    [][\A c, d \in Calls :
          (/\ IsConfirm(d) /\ calls[d].pc = "done"
           /\ calls[d].outcome \in {"EXECUTED", "FAILED"}
           /\ Free(c)
           /\ calls'[c].handler = "mcp_confirm_and_execute"
           /\ calls'[c].argToken = calls[d].argToken)
          => calls'[c].outcome = "EXPIRED"]_vars

\* C6: with ALLOW_MODIFICATIONS false every query proposal of a statement that
\* holds a modification returns BLOCKED, with ALLOW_STORED_PROCEDURES false
\* every procedure proposal returns BLOCKED, and neither the one nor the other
\* submits anything to the database.
C6_DisabledFlagBlocks ==
    \A c \in Calls :
        /\ (/\ calls[c].handler \in {"mcp_execute_query", "mcp_execute_query_flagged"}
            /\ ~SECURITY_CONFIG.ALLOW_MODIFICATIONS
            /\ hasModificationsOf(calls[c].query))
           => (calls[c].outcome = "BLOCKED" /\ DbRequestsBy({c}) = {})
        /\ (/\ calls[c].handler \in {"mcp_execute_procedure", "mcp_execute_procedure_flagged"}
            /\ ~SECURITY_CONFIG.ALLOW_STORED_PROCEDURES)
           => (calls[c].outcome = "BLOCKED" /\ DbRequestsBy({c}) = {})

\* C7: every proposal that ended BLOCKED names the flag to enable and, the
\* audit file being writable, has appended exactly one audit event, with result
\* CANCELLED.
C7_BlockedIsAudited ==
    \A c \in Calls :
        calls[c].outcome = "BLOCKED" =>
            /\ calls[c].flagNamed \in {"DB_ALLOW_MODIFICATIONS", "DB_ALLOW_STORED_PROCEDURES"}
            /\ auditWritable =>
                   /\ Cardinality(AuditEventsBy({c})) = 1
                   /\ \A i \in AuditEventsBy({c}) : auditLog[i].result = "CANCELLED"

\* C8: the audit file being writable, every attempted mutation (a proposal
\* that required confirmation, with the confirms of its token) has produced
\* exactly one audit event once no call of it is still running.
C8_OneAuditEventPerMutation ==
    \A p \in Calls :
        (/\ auditWritable
         /\ IsProposal(p)
         /\ \A c \in ConfirmsOf(p) : calls[c].pc = "done")
        => Cardinality(AuditEventsBy({p} \cup ConfirmsOf(p))) = 1

\* the normalisation the classifier is specified to apply: comments stripped,
\* white space collapsed, upper case; and the first token of the result
NormalizedFirstToken(sql) ==
    FirstSplit(ToUpperCase(Trim(CollapseSpaces(StripBlockComments(StripLineComments(sql))))))

\* C9: a statement whose first token, after normalisation, is none of the
\* listed write or read keywords is classified HIGH with requiresConfirmation.
C9_UnrecognizedFailsClosed ==
    (/\ clsResult # NoAnalysis
     /\ NormalizedFirstToken(clsInput) \notin WRITE_OPERATIONS \cup READ_OPERATIONS)
    => (clsResult.requiresConfirmation /\ clsResult.riskLevel = "HIGH")

\* C10: a statement whose first token, after normalisation, is SELECT, SHOW,
\* DESCRIBE, EXPLAIN or WITH is classified LOW without confirmation.
C10_ReadKeywordsNeedNoConfirmation ==
    (/\ clsResult # NoAnalysis
     /\ NormalizedFirstToken(clsInput) \in {kSELECT, kSHOW, kDESCRIBE, kEXPLAIN, kWITH})
    => (~clsResult.requiresConfirmation /\ clsResult.riskLevel = "LOW")

\* the statement leads with keyword kw: after trimming and upper-casing, the
\* text begins with kw and the keyword ends there (no word character follows)
LeadsWithKeyword(sql, kw) ==
    LET cleanSql == CleanSql(sql)
    IN  /\ StartsWith(cleanSql, kw)
        /\ Len(cleanSql) > Len(kw) => ~IsWordChar(cleanSql[Len(kw) + 1])

\* the fixed risk table of the write keywords
RiskTable ==
    { <<kDELETE, "HIGH">>, <<kDROP, "HIGH">>, <<kTRUNCATE, "HIGH">>, <<kALTER, "HIGH">>,
      <<kUPDATE, "MEDIUM">>, <<kINSERT, "LOW">> }

\* C11: a statement that leads with DELETE, DROP, TRUNCATE or ALTER, whatever
\* character follows the keyword, is classified HIGH, one that leads with
\* UPDATE MEDIUM and one that leads with INSERT LOW, each with
\* requiresConfirmation.
C11_RiskTable ==
    \A row \in RiskTable :
        (clsResult # NoAnalysis /\ LeadsWithKeyword(clsInput, row[1]))
        => (clsResult.requiresConfirmation /\ clsResult.riskLevel = row[2])

\* the requests a step adds to the database log
NewDbRequests == {i \in DOMAIN dbLog' : i > Len(dbLog)}

LeadsWithRead(sql) ==
    \E kw \in {kSELECT, kSHOW, kDESCRIBE, kEXPLAIN} : LeadsWithKeyword(sql, kw)

\* C13: a query call whose statement leads with SELECT, SHOW, DESCRIBE or
\* EXPLAIN is never BLOCKED, whatever the two flags and whatever the body of
\* the statement holds, and appends no audit event with result CANCELLED.
C13_ReadsAlwaysAllowed ==
    \A c \in Calls :
        (/\ calls[c].handler \in {"mcp_execute_query", "mcp_execute_query_flagged"}
         /\ LeadsWithRead(calls[c].query))
        => /\ calls[c].outcome # "BLOCKED"
           /\ \A i \in AuditEventsBy({c}) : auditLog[i].result # "CANCELLED"

\* request i makes the database run a stored procedure
RunsProcedure(i) ==
    \/ dbLog[i].kind = "execute"
    \/ /\ dbLog[i].kind = "query"
       /\ \E kw \in {kEXEC, kEXECUTE} : LeadsWithKeyword(dbLog[i].text, kw)

\* C14: while ALLOW_STORED_PROCEDURES is false no request that runs a stored
\* procedure reaches the database, be it from mcp_execute_procedure or from
\* mcp_execute_query given an EXEC or EXECUTE statement, whatever
\* ALLOW_MODIFICATIONS is.
C14_NoProcedureWhileDisabled ==
    ~SECURITY_CONFIG.ALLOW_STORED_PROCEDURES => \A i \in DOMAIN dbLog : ~RunsProcedure(i)

\* C15: when the database answers the estimator's row-count query with an
\* error, the proposal is neither failed nor rejected: it reports
\* estimatedRows = 0 with the could-not-estimate warning, stores the pending
\* operation and returns AWAITING_CONFIRMATION with its token.
C15_EstimateFailureStillProposes ==
    [][\A i \in DOMAIN dbLog :
          (/\ dbLog[i].phase = "estimate"
           /\ dbLog[i].reply = "pending"
           /\ dbLog'[i].reply = "error")
          => LET c == dbLog[i].by
             IN  /\ calls'[c].outcome = "AWAITING_CONFIRMATION"
                 /\ calls'[c].error = "none"
                 /\ calls'[c].warning = "Could not estimate the number of affected rows"
                 /\ calls'[c].token \in DOMAIN pendingOperations'
                 /\ pendingOperations'[calls'[c].token].sql = calls[c].query
                 /\ pendingOperations'[calls'[c].token].estimatedRows = 0
      ]_vars

\* a row-count query failed and its proposal is awaiting confirmation
C15_Witness ==
    \E i \in DOMAIN dbLog :
        /\ dbLog[i].phase = "estimate"
        /\ dbLog[i].reply = "error"
        /\ calls[dbLog[i].by].outcome = "AWAITING_CONFIRMATION"
        /\ calls[dbLog[i].by].token \in DOMAIN pendingOperations

\* C16: the proposal carries the large-impact warning exactly when the
\* estimate is above 1000 rows (none at 1000), a proposal with such an estimate
\* still stores its operation and returns a token, and a confirm that hits an
\* operation estimated above 1000 rows still submits it to the database.
C16_LargeImpactIsAdvisory ==
    [][/\ \A i \in DOMAIN dbLog :
              (/\ dbLog[i].phase = "estimate"
               /\ dbLog[i].reply = "pending"
               /\ dbLog'[i].reply = "ok")
              => LET c == dbLog[i].by
                     token == calls'[c].token
                 IN  /\ calls'[c].outcome = "AWAITING_CONFIRMATION"
                     /\ token \in DOMAIN pendingOperations'
                     /\ (calls'[c].warning = "Large number of rows may be affected")
                            <=> (pendingOperations'[token].estimatedRows > 1000)
                     /\ calls'[c].warning \in
                            {"undefined", "Large number of rows may be affected"}
       /\ \A c \in Calls :
              (/\ Free(c)
               /\ calls'[c].handler = "mcp_confirm_and_execute"
               /\ calls'[c].argToken \in DOMAIN pendingOperations
               /\ now - pendingOperations[calls'[c].argToken].timestamp <= maxAge
               /\ pendingOperations[calls'[c].argToken].estimatedRows > 1000)
              => \E i \in NewDbRequests :
                     /\ dbLog'[i].by = c
                     /\ dbLog'[i].phase = "execute"
                     /\ dbLog'[i].text = pendingOperations[calls'[c].argToken].sql
      ]_vars

\* proposals estimated at 1000 rows (no warning) and at 1001 rows (warning),
\* the latter confirmed and executed
C16_Witness ==
    \E p, q, c \in Calls :
        /\ IsProposal(p) /\ calls[p].warning = "undefined"
        /\ \E i \in DbRequestsBy({p}) : dbLog[i].phase = "estimate" /\ dbLog[i].reply = "ok"
        /\ IsProposal(q) /\ calls[q].warning = "Large number of rows may be affected"
        /\ IsConfirm(c) /\ calls[c].argToken = calls[q].token
        /\ calls[c].outcome = "EXECUTED"

\* what a finished call returns, told from its handler and from what the
\* database answered to the operation it submitted
ExpectedOutcome(c) ==
    LET submitted == {i \in DbRequestsBy({c}) : dbLog[i].phase \in {"direct", "execute"}}
    IN  IF submitted # {}
        THEN IF \A i \in submitted : dbLog[i].reply = "ok" THEN "EXECUTED" ELSE "FAILED"
        ELSE IF IsConfirm(c) THEN "EXPIRED" ELSE "AWAITING_CONFIRMATION"

\* C17: whether the audit file can be written or not, a finished propose or
\* confirm call returns what its handler and the database's answers determine
\* (a statement that needs no confirmation was sent to the database, a
\* proposal got its token), and no result carries the error of the audit
\* write.
C17_AuditFailureNeverSurfaces ==
    \A c \in Calls :
        /\ calls[c].error # AuditErrorMessage
        /\ calls[c].pc = "done" =>
               /\ calls[c].outcome = ExpectedOutcome(c)
               /\ calls[c].outcome = "AWAITING_CONFIRMATION" => calls[c].token # NoToken
               /\ (/\ calls[c].handler = "mcp_execute_query"
                   /\ ~analysisOf(calls[c].query).requiresConfirmation)
                  => \E i \in DbRequestsBy({c}) : dbLog[i].text = calls[c].query

\* the audit file cannot be written, every event was lost, and a read was
\* executed, a mutation proposed and its confirm executed all the same
C17_Witness ==
    /\ ~auditWritable
    /\ auditLog = <<>>
    /\ \E r, p, c \in Calls :
           /\ calls[r].handler = "mcp_execute_query" /\ calls[r].outcome = "EXECUTED"
           /\ IsProposal(p)
           /\ IsConfirm(c) /\ calls[c].argToken = calls[p].token
           /\ calls[c].outcome = "EXECUTED"

DirectCalls ==
    {c \in Calls : \E i \in DbRequestsBy({c}) : dbLog[i].phase = "direct"} \cup
    {c \in Calls : \E i \in AuditEventsBy({c}) :
                       auditLog[i].result = "SUCCESS" /\ ~auditLog[i].userConfirmed}

\* C19: on the direct-execute path a SUCCESS audit event of a call exists only
\* if the database has answered that call's request successfully, and a call
\* whose request failed has, once finished and the audit file being writable,
\* a FAILED event and no SUCCESS event.
C19_DirectAuditMatchesOutcome ==
    \A c \in DirectCalls :
        /\ (\E i \in AuditEventsBy({c}) : auditLog[i].result = "SUCCESS")
           => \E j \in DbRequestsBy({c}) : dbLog[j].phase = "direct" /\ dbLog[j].reply = "ok"
        /\ (/\ calls[c].pc = "done"
            /\ auditWritable
            /\ \E j \in DbRequestsBy({c}) : dbLog[j].phase = "direct" /\ dbLog[j].reply = "error")
           => /\ \E i \in AuditEventsBy({c}) : auditLog[i].result = "FAILED"
              /\ \A i \in AuditEventsBy({c}) : auditLog[i].result # "SUCCESS"

\* C20: the status a mcp_get_security_status call reports is told by the two
\* flags alone: LOW with two recommendations to disable when both are true,
\* MEDIUM with the one caution about the enabled flag when one is true, and
\* MAXIMUM with the one affirming recommendation when both are false.
C20_SecurityStatusFromFlags ==
    \A c \in Calls :
        calls[c].handler = "mcp_get_security_status" =>
            LET status == calls[c].status
                m == SECURITY_CONFIG.ALLOW_MODIFICATIONS
                p == SECURITY_CONFIG.ALLOW_STORED_PROCEDURES
            IN  /\ status.modifications_enabled = m
                /\ status.stored_procedures_enabled = p
                /\ (m /\ p) =>
                       /\ status.security_level = "LOW"
                       /\ status.recommendations =
                              << "[!] Consider disabling modifications in production",
                                 "[!] Consider disabling stored procedures in production" >>
                /\ (m /\ ~p) =>
                       /\ status.security_level = "MEDIUM"
                       /\ status.recommendations =
                              << "[!] Modifications are enabled - use with caution" >>
                /\ (~m /\ p) =>
                       /\ status.security_level = "MEDIUM"
                       /\ status.recommendations =
                              << "[!] Stored procedures are enabled - use with caution" >>
                /\ (~m /\ ~p) =>
                       /\ status.security_level = "MAXIMUM"
                       /\ status.recommendations =
                              << "[OK] Optimal security configuration for production" >>

\* call c starts a mcp_confirm_and_execute of token t in this step
ConfirmStarts(c, t) ==
    /\ Free(c)
    /\ calls'[c].handler = "mcp_confirm_and_execute"
    /\ calls'[c].argToken = t

\* C21: a lookup of a stored token returns the entry exactly when
\* now - timestamp <= maxAge (an entry aged exactly maxAge is returned); a
\* lookup that finds an older entry returns nothing and deletes the entry.
C21_GetWithinTtlOnly ==
    [][\A c \in Calls, t \in DOMAIN pendingOperations :
          ConfirmStarts(c, t) =>
              IF now - pendingOperations[t].timestamp <= maxAge
              THEN /\ calls'[c].pc = "await_execute"
                   /\ calls'[c].op.sql = pendingOperations[t].sql
                   /\ pendingOperations' = pendingOperations
              ELSE /\ calls'[c].outcome = "EXPIRED"
                   /\ t \notin DOMAIN pendingOperations'
                   /\ dbLog' = dbLog
      ]_vars

\* a lookup made at the age of exactly maxAge has returned the entry
C21_Witness ==
    \E c \in Calls :
        /\ IsConfirm(c)
        /\ calls[c].pc = "await_execute"
        /\ calls[c].argToken \in DOMAIN pendingOperations
        /\ now - pendingOperations[calls[c].argToken].timestamp = maxAge
        /\ \A i \in DbRequestsBy({c}) : dbLog[i].text = calls[c].op.sql \/ dbLog[i].text = calls[c].op.spName

\* call c ends a proposal in this step: it stores its operation and returns
\* the token
ProposalReturns(c) ==
    /\ calls[c].outcome # "AWAITING_CONFIRMATION"
    /\ calls'[c].outcome = "AWAITING_CONFIRMATION"

\* C22: right after a proposal has stored its operation, the store holds the
\* new entry, stamped now, under the returned token, holds no entry older than
\* maxAge, and every other entry that was within maxAge is still there,
\* unchanged.
C22_PutInsertsAndSweeps ==
    [][\A c \in Calls :
          ProposalReturns(c) =>
              LET token == calls'[c].token
              IN  /\ token \in DOMAIN pendingOperations'
                  /\ pendingOperations'[token].timestamp = now
                  /\ \A k \in DOMAIN pendingOperations' :
                         now - pendingOperations'[k].timestamp <= maxAge
                  /\ \A k \in DOMAIN pendingOperations \ {token} :
                         now - pendingOperations[k].timestamp <= maxAge =>
                             /\ k \in DOMAIN pendingOperations'
                             /\ pendingOperations'[k] = pendingOperations[k]
      ]_vars

\* a later proposal has swept the expired entry of an earlier one that nobody
\* confirmed, while a third entry, still within maxAge, stayed
C22_Witness ==
    \E p, q, r \in Calls :
        /\ IsProposal(p) /\ IsProposal(q) /\ IsProposal(r)
        /\ calls[p].token.ts + maxAge < calls[r].token.ts
        /\ calls[q].token.ts + maxAge = calls[r].token.ts
        /\ calls[p].token \notin DOMAIN pendingOperations
        /\ calls[q].token \in DOMAIN pendingOperations
        /\ calls[r].token \in DOMAIN pendingOperations

\* the pending operation a proposal call stores
ProposedSql(p) ==
    IF calls[p].handler = "mcp_execute_procedure" THEN ExecText(calls[p].spName)
    ELSE calls[p].query

\* C23: whatever a confirm call submits for execution is the operation
\* proposed by the call that returned the token it carries: the same statement
\* text, or the same procedure name with the same parameters.
C23_TokenBindsProposal ==
    \A c, p \in Calls :
        (/\ IsConfirm(c)
         /\ IsProposal(p)
         /\ calls[p].token = calls[c].argToken)
        => \A i \in DbRequestsBy({c}) :
               dbLog[i].phase = "execute" =>
                   /\ SubmitsProposed(i, p)
                   /\ dbLog[i].params = calls[p].params

\* C29: every token a proposal returned that is in the store and within
\* maxAge maps to the operation of that proposal: a later proposal never
\* replaces it.
C29_TokenNeverReplaced ==
    \A p \in Calls :
        (/\ IsProposal(p)
         /\ calls[p].token \in DOMAIN pendingOperations
         /\ now - pendingOperations[calls[p].token].timestamp <= maxAge)
        => /\ pendingOperations[calls[p].token].sql = ProposedSql(p)
           /\ pendingOperations[calls[p].token].spName = calls[p].spName
           /\ pendingOperations[calls[p].token].params = calls[p].params

\* the text call c returned has a line with this label
MessageSays(c, label) ==
    \E i \in DOMAIN calls'[c].message : calls'[c].message[i].label = label

\* the text call c returned shows this value on a line with this label
MessageShows(c, label, value) ==
    \E i \in DOMAIN calls'[c].message :
        /\ calls'[c].message[i].label = label
        /\ calls'[c].message[i].value = value

\* in the step in which proposal c returns its token: the store holds the
\* proposed operation under it, and the text returned shows the token, the
\* risk level and the statement that nothing has run
ProposalStoredAndAnnounced(c) ==
    LET token == calls'[c].token
    IN  /\ token \in DOMAIN pendingOperations'
        /\ pendingOperations'[token].sql = IF calls'[c].handler = "mcp_execute_procedure"
                                           THEN ExecText(calls'[c].spName)
                                           ELSE calls'[c].query
        /\ pendingOperations'[token].spName = calls'[c].spName
        /\ pendingOperations'[token].params = calls'[c].params
        /\ MessageShows(c, "Con el token", token)
        /\ MessageShows(c, "Nivel de Riesgo", pendingOperations'[token].riskLevel)
        /\ MessageSays(c, "La operacion NO se ha ejecutado aun.")

\* the audit events this step appends
NewAuditEvents == {i \in DOMAIN auditLog' : i > Len(auditLog)}

\* this step appends exactly one event, by call c, with result CANCELLED and
\* error "Pending user confirmation"
OnePendingEventAppended(c) ==
    /\ Cardinality(NewAuditEvents) = 1
    /\ \A i \in NewAuditEvents :
           /\ auditLog'[i].by = c
           /\ auditLog'[i].result = "CANCELLED"
           /\ auditLog'[i].error = "Pending user confirmation"
           /\ auditLog'[i].userConfirmed = FALSE

\* C25 (as stated): when a proposal returns AWAITING_CONFIRMATION with token t
\* the store holds the proposed operation under t, exactly one CANCELLED
\* "Pending user confirmation" event has been appended for it, and the text
\* returned contains t, the risk level and the not-yet-executed statement.
C25_ProposalStoredAuditedAnnounced ==
    [][\A c \in Calls :
          ProposalReturns(c) =>
              /\ ProposalStoredAndAnnounced(c)
              /\ OnePendingEventAppended(c)]_vars

\* C25 (amended): the same, with the audit event appended when the audit file
\* can be written and no event at all when the append fails.
C25_ProposalStoredAnnouncedAuditedIfWritable ==
    [][\A c \in Calls :
          ProposalReturns(c) =>
              /\ ProposalStoredAndAnnounced(c)
              /\ IF auditWritable THEN OnePendingEventAppended(c)
                 ELSE NewAuditEvents = {}]_vars

\* a proposal with a large estimate has returned its token while the audit
\* file is writable, and one with no audit event while it is not
C25_Witness ==
    \E c \in Calls :
        /\ IsProposal(c)
        /\ calls[c].warning # "undefined"
        /\ calls[c].token \in DOMAIN pendingOperations
        /\ Len(calls[c].message) >= 8
        /\ auditWritable
        /\ AuditEventsBy({c}) # {}

\* C26: no call of the three gate handlers ends by rejecting, and a call that
\* ends without success (FAILED, EXPIRED, BLOCKED, AWAITING_CONFIRMATION)
\* carries an error text.
C26_FailureIsAValue ==
    \A c \in Calls :
        (/\ calls[c].pc = "done"
         /\ calls[c].handler \in {"mcp_execute_query", "mcp_execute_procedure",
                                  "mcp_confirm_and_execute"})
        => /\ calls[c].outcome # "REJECTED"
           /\ calls[c].outcome # "EXECUTED"
                  => (calls[c].error # "none" \/ calls[c].message # <<>>)

\* token t has no live entry in the store: never issued, consumed, or stored
\* more than maxAge ago
Misses(t) ==
    \/ t \notin DOMAIN pendingOperations
    \/ now - pendingOperations[t].timestamp > maxAge

\* C27: a confirm call whose token has no live entry in the store returns the
\* invalid-or-expired error at once, submits nothing to the database, and
\* leaves every pending operation stored under another token as it was.
C27_MissIsTerminalAndFramed ==
    [][\A c \in Calls, t \in IssuedTokens \cup {BogusToken} :
          (ConfirmStarts(c, t) /\ Misses(t)) =>
              /\ calls'[c].pc = "done"
              /\ calls'[c].outcome = "EXPIRED"
              /\ calls'[c].error = ExpiredMessage
              /\ dbLog' = dbLog
              /\ \A k \in DOMAIN pendingOperations \ {t} :
                     /\ k \in DOMAIN pendingOperations'
                     /\ pendingOperations'[k] = pendingOperations[k]
              /\ DOMAIN pendingOperations' \subseteq DOMAIN pendingOperations]_vars

\* a confirm of a token that had expired got the error while another
\* proposal's operation is still stored
C27_Witness ==
    \E c, p, q \in Calls :
        /\ IsConfirm(c) /\ IsProposal(p) /\ IsProposal(q)
        /\ calls[c].outcome = "EXPIRED"
        /\ calls[c].argToken = calls[p].token
        /\ calls[p].token \notin DOMAIN pendingOperations
        /\ calls[q].token \in DOMAIN pendingOperations
        /\ DbRequestsBy({c}) = {}

\* the flag that governs the proposal of call c (as it is after this step) is
\* disabled
GoverningFlagDisabled(c) ==
    IF calls'[c].handler \in {"mcp_execute_procedure", "mcp_execute_procedure_flagged"}
    THEN ~SECURITY_CONFIG.ALLOW_STORED_PROCEDURES
    ELSE ~SECURITY_CONFIG.ALLOW_MODIFICATIONS

\* C28: a step in which a proposal ends BLOCKED gives it no token and leaves
\* the store as it was, and no proposal whose governing flag is disabled ends
\* in AWAITING_CONFIRMATION.
C28_FlagCheckComesFirst ==
    [][\A c \in Calls :
          /\ (calls[c].outcome # "BLOCKED" /\ calls'[c].outcome = "BLOCKED")
             => /\ calls'[c].token = NoToken
                /\ pendingOperations' = pendingOperations
          /\ (ProposalReturns(c) /\ GoverningFlagDisabled(c))
             => FALSE]_vars

\* database request k makes the database run the statement an audit event
\* names: the text itself, or the procedure of an EXEC text
RunsStatement(k, sql) ==
    IF dbLog[k].kind = "execute" THEN ExecText(dbLog[k].text) = sql
    ELSE dbLog[k].text = sql

\* the requests that ran statement sql after audit event i and before event j
RunsBetween(i, j, sql) ==
    {k \in DOMAIN dbLog :
        /\ auditLog[i].requestsBefore < k
        /\ k <= auditLog[j].requestsBefore
        /\ RunsStatement(k, sql)}

\* C30: every audit event of a confirmed SUCCESS comes after a CANCELLED
\* "Pending user confirmation" event for the same statement, and between the
\* two the statement was submitted to the database exactly once.
C30_ConfirmedSuccessFollowsPending ==
    \A j \in DOMAIN auditLog :
        (auditLog[j].userConfirmed /\ auditLog[j].result = "SUCCESS")
        => \E i \in 1..(j - 1) :
               /\ auditLog[i].result = "CANCELLED"
               /\ auditLog[i].error = "Pending user confirmation"
               /\ auditLog[i].sql = auditLog[j].sql
               /\ Cardinality(RunsBetween(i, j, auditLog[j].sql)) = 1

\* C24: each flag is true exactly when its environment value is set and, with
\* letter case ignored, is one of true, yes, 1, on; unset, empty and every
\* other value give false
C24_FlagsFailClosed ==
    SECURITY_CONFIG # NoConfig =>
        /\ SECURITY_CONFIG.ALLOW_MODIFICATIONS =
               (/\ process_env.DB_ALLOW_MODIFICATIONS.defined
                /\ ToLowerCase(process_env.DB_ALLOW_MODIFICATIONS.text) \in TruthyWords)
        /\ SECURITY_CONFIG.ALLOW_STORED_PROCEDURES =
               (/\ process_env.DB_ALLOW_STORED_PROCEDURES.defined
                /\ ToLowerCase(process_env.DB_ALLOW_STORED_PROCEDURES.text) \in TruthyWords)

\* the flags were computed from 'Yes' and from ' true': the first is on, the
\* second, which is no enabling word, is off
C24_Witness ==
    /\ SECURITY_CONFIG # NoConfig
    /\ process_env.DB_ALLOW_MODIFICATIONS = EnvString(<<"Y","e","s">>)
    /\ process_env.DB_ALLOW_STORED_PROCEDURES = EnvString(<<" ","t","r","u","e">>)
    /\ SECURITY_CONFIG.ALLOW_MODIFICATIONS
    /\ ~SECURITY_CONFIG.ALLOW_STORED_PROCEDURES

\* call c gets the answer to the operation it submitted for token t, the
\* execution having succeeded: the step that calls removePendingOperation(t)
RemoveStep(c, t) ==
    /\ IsConfirm(c)
    /\ calls[c].pc = "await_execute"
    /\ calls[c].argToken = t
    /\ calls'[c].pc # "await_execute"
    /\ calls'[c].outcome # "FAILED"

\* C31: a lookup of an entry within maxAge returns that entry and leaves the
\* store as it was; removePendingOperation(t) deletes t and nothing else, and
\* changes nothing when t is absent; and an entry that is still within maxAge
\* after a step is still stored, unchanged, unless the step removed its token
\* (or stored a new operation under the same token, the case of C29).
C31_LookupIsPureRemoveIsExact ==
    [][/\ \A c \in Calls, t \in DOMAIN pendingOperations :
             (ConfirmStarts(c, t) /\ now - pendingOperations[t].timestamp <= maxAge)
             => /\ pendingOperations' = pendingOperations
                /\ calls'[c].op.sql = pendingOperations[t].sql
                /\ calls'[c].op.operation = pendingOperations[t].operation
                /\ calls'[c].op.spName = pendingOperations[t].spName
                /\ calls'[c].op.params = pendingOperations[t].params
       /\ \A c \in Calls, t \in IssuedTokens :
             RemoveStep(c, t)
             => /\ DOMAIN pendingOperations' = DOMAIN pendingOperations \ {t}
                /\ \A k \in DOMAIN pendingOperations' :
                       pendingOperations'[k] = pendingOperations[k]
       /\ \A k \in DOMAIN pendingOperations :
             (/\ now' - pendingOperations[k].timestamp <= maxAge
              /\ ~\E c \in Calls : RemoveStep(c, k)
              /\ ~\E c \in Calls : ProposalReturns(c) /\ calls'[c].token = k)
             => /\ k \in DOMAIN pendingOperations'
                /\ pendingOperations'[k] = pendingOperations[k]
      ]_vars

\* two confirm calls looked the same token up one after the other, both got
\* the entry and both have executed: the second removal found the token gone
C31_Witness ==
    \E c, d \in Calls :
        /\ c # d
        /\ IsConfirm(c) /\ IsConfirm(d)
        /\ calls[c].argToken = calls[d].argToken
        /\ calls[c].outcome = "EXECUTED"
        /\ calls[d].outcome = "EXECUTED"
        /\ calls[c].argToken \notin DOMAIN pendingOperations

\* C32: a statement that leads with CREATE, MERGE, BULK, EXEC or EXECUTE is
\* classified MEDIUM with requiresConfirmation, and no statement that leads
\* with any of the eleven write keywords is run directly by mcp_execute_query.
C32_WriteKeywordsNeedConfirmation ==
    clsResult # NoAnalysis =>
        /\ \A kw \in {kCREATE, kMERGE, kBULK, kEXEC, kEXECUTE} :
               LeadsWithKeyword(clsInput, kw)
               => (clsResult.requiresConfirmation /\ clsResult.riskLevel = "MEDIUM")
        /\ \A kw \in WRITE_OPERATIONS :
               LeadsWithKeyword(clsInput, kw) => ~ExecutesDirectly(clsResult)

\* ' MERGE;x' has been classified: MEDIUM, with confirmation
C32_Witness ==
    /\ clsInput = SP \o kMERGE \o <<";","x">>
    /\ clsResult # NoAnalysis
    /\ clsResult.requiresConfirmation
    /\ clsResult.riskLevel = "MEDIUM"

\* C33: the confirm tool is listed and exported, every tool call that carries
\* a token a proposal returned is handed to mcp_confirm_and_execute, and when
\* the token was within maxAge and the database ran the operation the call
\* ends in EXECUTED.
C33_ConfirmReachableThroughToolCalls ==
    \A c \in Calls :
        calls[c].argToken \in IssuedTokens
        => /\ "mcp_confirm_and_execute" \in MCP_MSQL_TOOLS \cap toolHandlers
           /\ calls[c].handler = "mcp_confirm_and_execute"
           /\ calls[c].outcome # "UNKNOWN_TOOL"
           /\ (/\ calls[c].pc = "done"
               /\ \E i \in DbRequestsBy({c}) :
                      dbLog[i].phase = "execute" /\ dbLog[i].reply = "ok")
              => calls[c].outcome = "EXECUTED"

PendingAttempts == {k \in DOMAIN attempts : attempts[k].state = "pending"}

\* C34: never are two connection attempts under way at once, and all calls
\* that wait wait for the same attempt and get its pool; once a failed attempt
\* has been dealt with, pool, isConnecting and connectionPromise are reset;
\* and getPool returns a pool only after an attempt has succeeded.
C34_OneAttemptSharedByAll ==
    /\ Cardinality(PendingAttempts) <= 1
    /\ \A c, d \in ConnCalls :
           (connCalls[c].pc = "await" /\ connCalls[d].pc = "await")
           => connCalls[c].awaiting = connCalls[d].awaiting
    /\ \A c \in ConnCalls :
           (connCalls[c].fn = "connectDB" /\ connCalls[c].pc = "returned")
           => attempts[connCalls[c].result].state = "resolved"
    /\ (jobs = <<>> /\ attempts # <<>> /\ attempts[Len(attempts)].state = "rejected")
       => (pool = NoPool /\ ~isConnecting /\ connectionPromise = NoPromise)
    /\ \A c \in ConnCalls :
           (connCalls[c].fn = "getPool" /\ connCalls[c].pc = "returned")
           => \E k \in DOMAIN attempts : attempts[k].state = "resolved"

====
